---- MODULE Spec2Model ----
(***************************************************************************)
(* Flash-backed ICER compression pipeline of spresence-compression:        *)
(* streamingWaveletTransform (flash_wavelet.cpp), compressYuvWithIcerFlash *)
(* (flash_icer_compression.cpp) and the partition coder                    *)
(* (flash_partition.cpp), over a storage device that can fail.             *)
(*                                                                         *)
(* A plane file is a sequence of 16-bit samples (2 bytes each); the output *)
(* bitstream file is a sequence of emitted segment records.  Storage open, *)
(* read, write and heap allocation may fail at every call.  remove() and   *)
(* seek() (whose results the code never tests) succeed; a write past the   *)
(* end of a file extends it (gap read back as zero).                       *)
(***************************************************************************)
EXTENDS Integers, Sequences, FiniteSets, TLC

(***************************************************************************)
(* Bounds of the model.  The ICER library limits and the wavelet buffer    *)
(* budget are scaled down so that small images exercise several column     *)
(* batches, several bit-planes and the packet limit.                       *)
(***************************************************************************)
MaxDim == 3
MaxStages == 2
ICER_BITPLANES_TO_COMPRESS_16 == 2
ICER_MAX_SEGMENTS == 2
MAX_BUFFER_SIZE == 4
MaxColsPerBatch == 2

(***************************************************************************)
(* Program constants.                                                      *)
(***************************************************************************)
ICER_MAX_DECOMP_STAGES == 6
ICER_SUBBAND_LL == 0
ICER_SUBBAND_HL == 1
ICER_SUBBAND_LH == 2
ICER_SUBBAND_HH == 3
ICER_SUBBAND_MAX == 3
ICER_CHANNEL_Y == 0
ICER_CHANNEL_U == 1
ICER_CHANNEL_V == 2
ICER_CHANNEL_MIN == 0
ICER_CHANNEL_MAX == 2
ICER_RESULT_OK == 0
ICER_INTEGER_OVERFLOW == -1
ICER_OUTPUT_BUF_TOO_SMALL == -2
ICER_BYTE_QUOTA_EXCEEDED == -5
ICER_PACKET_COUNT_EXCEEDED == -9
ICER_FATAL_ERROR == -10
ICER_TOO_MANY_SEGMENTS == -3
ICER_BITPLANE_OUT_OF_RANGE == -6
INT16_MAX == 32767
SizeofSegmentHeader == 32
SizeofUint16 == 2
SIZE_MAX == 2147483647
MAX_DATASTREAM_BUFFER_SIZE == 400 * 1024
DatastreamMargin == 512

Channels == ICER_CHANNEL_MIN..ICER_CHANNEL_MAX
NumChannels == ICER_CHANNEL_MAX - ICER_CHANNEL_MIN + 1

\* The packet array holds as many packets as MaxStages stages produce, so that
\* the largest stage count of the model reaches the limit exactly.
ICER_MAX_PACKETS_16 ==
    3 * MaxStages * ICER_BITPLANES_TO_COMPRESS_16 * NumChannels
      + ICER_BITPLANES_TO_COMPRESS_16 * NumChannels

Max(a, b) == IF a > b THEN a ELSE b
Min(a, b) == IF a < b THEN a ELSE b

(***************************************************************************)
(* File names.                                                             *)
(***************************************************************************)
y_flash_file == "_y_channel.tmp"
u_flash_file == "_u_channel.tmp"
v_flash_file == "_v_channel.tmp"
y_transformed_tmp == "_y_transformed.tmp"
u_transformed_tmp == "_u_transformed.tmp"
v_transformed_tmp == "_v_transformed.tmp"
temp_file == "_wavelet_temp.tmp"
stage_temp_file == "_wavelet_stage_temp.tmp"
temp_convert_file == "_temp_convert.tmp"
output_flash_file == "_icer_result.tmp"

InputFiles == {y_flash_file, u_flash_file, v_flash_file}
TransformedTmpFiles == {y_transformed_tmp, u_transformed_tmp, v_transformed_tmp}
ScratchFiles == {temp_file, stage_temp_file, temp_convert_file}
PlaneFiles == InputFiles \cup TransformedTmpFiles \cup ScratchFiles

VARIABLES
    args,      \* parameters of the call and the content of the input planes
    files,     \* plane files on storage: name -> [ex, data]
    outfile,   \* the output bitstream file: [ex, segs]
    handles,   \* open file handles: set of [h, f, m]
    heap,      \* live heap blocks
    pc,        \* position in compressYuvWithIcerFlash
    wv,        \* locals of the running streamingWaveletTransform call
    px,        \* locals of compressYuvWithIcerFlash
    packets,   \* icer_packets_16[0..ind-1]
    rearr,     \* icer_rearrange_segments_16: the non-NULL entries
    result,    \* IcerCompressionResult returned to the caller
    ov,        \* the wavelet engine's size arithmetic in a narrow size_t
    cv,        \* position in convertJpegToSeparateChannels and in its caller
    sd,        \* a SpresenceSDFile object and the File it wraps
    un         \* arguments, locals and results of a function explored on its own

\* the variables of compressYuvWithIcerFlash and the transform it calls
pipelineVars == <<args, files, outfile, handles, heap, pc, wv, px, packets, rearr, result>>

\* the variables of the other components
unitVars == <<ov, cv, sd, un>>

vars == <<pipelineVars, unitVars>>

width == args.width
height == args.height
stages == args.stages
segments == args.segments
target_size == args.target_size
channels_pre_transformed == args.channels_pre_transformed

(***************************************************************************)
(* Storage primitives (IFileSystem / IFile).                               *)
(***************************************************************************)
NoFile == [ex |-> FALSE, data |-> <<>>]

Remove(fs, name) == [fs EXCEPT ![name] = NoFile]

RemoveAll(fs, names) == [n \in DOMAIN fs |-> IF n \in names THEN NoFile ELSE fs[n]]

\* open(name, FILE_WRITE): creates the file when it does not exist
Create(fs, name) == [fs EXCEPT ![name] = [ex |-> TRUE, data |-> @.data]]

SetData(fs, name, d) == [fs EXCEPT ![name] = [ex |-> TRUE, data |-> d]]

FileSize(fs, name) == Len(fs[name].data) * SizeofUint16

Handle(h, f, m) == [h |-> h, f |-> f, m |-> m]

Close(hs, names) == {x \in hs : x.h \notin names}

\* a release that leaves the datastream buffer allocated
FreeKeepsDatastream(hp, names) == hp \ (names \ {"datastream"})

Free(hp, names) == hp \ names

Prefix(s, n) == SubSeq(s, 1, Min(n, Len(s)))

(***************************************************************************)
(* icer_wavelet_transform_1d_uint16: in-place 1-D lifting of n samples,    *)
(* low-pass outputs in the first ceil(n/2) places, high-pass outputs in    *)
(* the remaining floor(n/2) places, in 16-bit arithmetic.                  *)
(***************************************************************************)
LowCount(n) == (n + 1) \div 2

icer_wavelet_transform_1d_uint16(x) ==
    LET n == Len(x)
        nl == LowCount(n)
    IN [i \in 1..n |->
          IF i <= nl
          THEN IF 2 * i <= n THEN (x[2 * i - 1] + x[2 * i]) \div 2 ELSE x[2 * i - 1]
          ELSE (x[2 * (i - nl) - 1] - x[2 * (i - nl)]) % 65536]

(***************************************************************************)
(* streamingWaveletTransform                                               *)
(***************************************************************************)
WvIdle == [pc |-> "idle", input |-> "", output |-> "", stage |-> 0,
           current_w |-> 0, current_h |-> 0, batch_size |-> 0, col_start |-> 0,
           ret |-> 0, snap |-> <<>>, done_w |-> 0, done_h |-> 0,
           short_writes |-> 0, closed_unflushed |-> {}]

\* the size counted in samples instead of bytes
TotalSizeInSamples(w, h) == w * h

TotalSize(w, h) == w * h * SizeofUint16

stage_output_file == IF wv.stage = 0 THEN wv.output ELSE stage_temp_file

\* a failure return: opens are the handles opened since the last step, closes the
\* handles the path closes
WvFail(code, opens, closes, frees, removes, fs) ==
    /\ wv' = [wv EXCEPT !.pc = "ret", !.ret = code]
    /\ handles' = Close(handles \cup opens, closes)
    /\ heap' = Free(heap, frees)
    /\ files' = RemoveAll(fs, removes)

\* lines 61-74: parameter check, remove the output file, open the input file
W_Entry ==
    /\ wv.pc = "entry"
    /\ \E open_ok \in BOOLEAN :
         IF width = 0 \/ height = 0
         THEN /\ wv' = [wv EXCEPT !.pc = "ret", !.ret = -1]
              /\ UNCHANGED <<files, handles>>
         ELSE LET fs1 == Remove(files, wv.output) IN
              IF open_ok /\ fs1[wv.input].ex
              THEN /\ files' = fs1
                   /\ handles' = handles \cup {Handle("input_file", wv.input, "r")}
                   /\ wv' = [wv EXCEPT !.pc = "stage_head", !.stage = 0,
                                       !.current_w = width, !.current_h = height]
              ELSE /\ files' = fs1
                   /\ wv' = [wv EXCEPT !.pc = "ret", !.ret = -2]
                   /\ UNCHANGED handles
    /\ UNCHANGED <<unitVars, args, outfile, heap, pc, px, packets, rearr, result>>

\* lines 92-137: open the stage input and the row scratch, allocate the row buffer
W_StageHead ==
    /\ wv.pc = "stage_head"
    /\ wv.stage < stages
    /\ \E o \in {"ok", "open_in", "open_temp", "malloc"} :
         LET stage_input == IF wv.stage = 0 THEN wv.input ELSE wv.output
             fs1 == Remove(files, temp_file)
             fs2 == Create(fs1, temp_file)
         IN
         IF o = "open_in" \/ ~files[stage_input].ex
         THEN /\ WvFail(-3, {}, {"input_file"}, {}, {}, files)
         ELSE IF o = "open_temp"
         THEN /\ WvFail(-4, {Handle("stage_in", stage_input, "r")},
                        {"stage_in", "input_file"}, {}, {}, fs1)
         ELSE IF o = "malloc"
         THEN /\ WvFail(-5, {Handle("stage_in", stage_input, "r"),
                             Handle("temp_out", temp_file, "w")},
                        {"temp_out", "stage_in", "input_file"}, {}, {}, fs2)
         ELSE /\ files' = fs2
              /\ handles' = handles \cup {Handle("stage_in", stage_input, "r"),
                                           Handle("temp_out", temp_file, "w")}
              /\ heap' = heap \cup {"row_buffer"}
              /\ wv' = [wv EXCEPT !.pc = "row_pass",
                                  !.snap = files[wv.output].data]
    /\ UNCHANGED <<unitVars, args, outfile, pc, px, packets, rearr, result>>

\* the row of current_w samples at (row, 0) of a plane with row stride width
RowOf(d, row, w) == SubSeq(d, row * width + 1, row * width + w)

\* the compact scratch after the row pass: every row of the LL region transformed
RowPassData(d, w, h) ==
    [i \in 1..(w * h) |->
        icer_wavelet_transform_1d_uint16(RowOf(d, (i - 1) \div w, w))[((i - 1) % w) + 1]]

\* the handles written by phase 1 on which flush is called between the last write
\* and close (lines 186-205): none, the engine calls flush nowhere
FlushedBeforeClose == {}

\* lines 140-206: phase 1, row-wise transform into the compact scratch file
W_RowPass ==
    /\ wv.pc = "row_pass"
    /\ \E o \in {"ok", "read", "kernel", "write"} :
         LET stage_input == IF wv.stage = 0 THEN wv.input ELSE wv.output
             d == files[stage_input].data
             enough == Len(d) >= (wv.current_h - 1) * width + wv.current_w
             all == {"temp_out", "stage_in", "input_file"}
         IN
         IF o = "read" \/ ~enough
         THEN WvFail(-6, {}, all, {"row_buffer"}, {temp_file}, files)
         ELSE IF o = "kernel"
         THEN WvFail(-7, {}, all, {"row_buffer"}, {temp_file}, files)
         ELSE IF o = "write"
         THEN WvFail(-8, {}, all, {"row_buffer"}, {temp_file}, files)
         ELSE /\ files' = SetData(files, temp_file, RowPassData(d, wv.current_w, wv.current_h))
              /\ heap' = Free(heap, {"row_buffer"})
              /\ handles' = Close(handles, {"temp_out", "stage_in"})
              /\ wv' = [wv EXCEPT !.pc = "col_open",
                                  !.closed_unflushed = @ \cup ({"temp_out"} \ FlushedBeforeClose)]
    /\ UNCHANGED <<unitVars, args, outfile, pc, px, packets, rearr, result>>

\* lines 211-235: open the scratch for reading and the stage output for writing
W_ColOpen ==
    /\ wv.pc = "col_open"
    /\ \E o \in {"ok", "open_temp", "open_out"} :
         LET fs1 == Remove(files, stage_output_file)
             fs2 == Create(fs1, stage_output_file)
         IN
         IF o = "open_temp"
         THEN WvFail(-10, {}, {"input_file"}, {}, {temp_file}, files)
         ELSE IF o = "open_out"
         THEN WvFail(-9, {Handle("temp_in", temp_file, "r")}, {"temp_in", "input_file"}, {},
                     {temp_file}, fs1)
         ELSE /\ files' = fs2
              /\ handles' = handles \cup {Handle("temp_in", temp_file, "r"),
                                           Handle("stage_out", stage_output_file, "w")}
              /\ wv' = [wv EXCEPT !.pc = "col_init"]
              /\ UNCHANGED heap
    /\ UNCHANGED <<unitVars, args, outfile, pc, px, packets, rearr, result>>

Zeros(n) == [i \in 1..n |-> 0]

\* lines 239-277: stage 0 fills the output with zeros; the writes are not tested
W_ZeroFill ==
    /\ wv.pc = "col_init"
    /\ wv.stage = 0
    /\ LET total_size == TotalSize(width, height)
           n == total_size \div SizeofUint16
       IN
       IF total_size > SIZE_MAX
       THEN WvFail(-23, {}, {"temp_in", "stage_out", "input_file"}, {}, {temp_file}, files)
       ELSE \E written \in {n, n \div 2, 0} :
              /\ files' = SetData(files, stage_output_file, Zeros(written))
              /\ wv' = [wv EXCEPT !.pc = "col_alloc",
                                  !.short_writes = IF written # n THEN 1 ELSE @]
              /\ UNCHANGED <<handles, heap>>
    /\ UNCHANGED <<unitVars, args, outfile, pc, px, packets, rearr, result>>

\* the stage scratch initialised as in stage 0
ExistingPlaneZeroed(d, n) == Zeros(n)

\* lines 329-352: the n samples of the existing output plane, chunk by chunk
ExistingPlane(d, n) == Prefix(d, n)

\* lines 278-361: later stages copy the existing output plane into the stage scratch
W_CopyExisting ==
    /\ wv.pc = "col_init"
    /\ wv.stage > 0
    /\ \E o \in {"ok", "open", "malloc", "read", "write"} :
         LET total_size == TotalSize(width, height)
             n == total_size \div SizeofUint16
             d == files[wv.output].data
             open4 == {"existing_out", "temp_in", "stage_out", "input_file"}
             rm == {temp_file, stage_output_file}
             existing_out == {Handle("existing_out", wv.output, "r")}
         IN
         IF o = "open" \/ ~files[wv.output].ex
         THEN WvFail(-15, {}, {"temp_in", "stage_out", "input_file"}, {}, rm, files)
         ELSE IF total_size > SIZE_MAX
         THEN WvFail(-24, existing_out, open4, {}, rm, files)
         ELSE IF o = "malloc"
         THEN WvFail(-16, existing_out, open4, {}, rm, files)
         ELSE IF o = "read" \/ Len(d) < n
         THEN WvFail(-17, existing_out, open4, {"copy_buffer"}, rm, files)
         ELSE IF o = "write"
         THEN WvFail(-18, existing_out, open4, {"copy_buffer"}, rm, files)
         ELSE /\ files' = SetData(files, stage_output_file, ExistingPlane(d, n))
              /\ wv' = [wv EXCEPT !.pc = "col_alloc"]
              /\ UNCHANGED <<handles, heap>>
    /\ UNCHANGED <<unitVars, args, outfile, pc, px, packets, rearr, result>>

\* the column cap left out
max_cols_per_batch_uncapped(current_w, current_h, buffer_size, cap) ==
    LET col_size == current_h * SizeofUint16
        m0 == IF col_size > buffer_size THEN 1 ELSE buffer_size \div col_size
        m1 == IF m0 < 1 THEN 1 ELSE m0
    IN IF m1 > current_w THEN current_w ELSE m1

\* lines 388-411: the number of columns that fit buffer_size bytes, at least 1, at
\* most current_w and at most cap
max_cols_per_batch(current_w, current_h, buffer_size, cap) ==
    LET col_size == current_h * SizeofUint16
        m0 == IF col_size > buffer_size THEN 1 ELSE buffer_size \div col_size
        m1 == IF m0 < 1 THEN 1 ELSE m0
        m2 == IF m1 > current_w THEN current_w ELSE m1
    IN IF m2 > cap THEN cap ELSE m2

\* lines 371-425: number of columns buffered at once
BatchSize(current_w, current_h) ==
    max_cols_per_batch(current_w, current_h, MAX_BUFFER_SIZE, MaxColsPerBatch)

\* lines 371-447: size and allocate the column batch buffer
W_ColAlloc ==
    /\ wv.pc = "col_alloc"
    /\ \E o \in {"ok", "malloc"} :
         LET rm == IF wv.stage > 0 THEN {temp_file, stage_output_file} ELSE {temp_file} IN
         IF wv.current_h * SizeofUint16 > SIZE_MAX
         THEN WvFail(-19, {}, {"temp_in", "stage_out", "input_file"}, {}, rm, files)
         ELSE IF o = "malloc"
         THEN WvFail(-11, {}, {"temp_in", "stage_out", "input_file"}, {}, rm, files)
         ELSE /\ heap' = heap \cup {"col_buffer_batch"}
              /\ wv' = [wv EXCEPT !.pc = "col_batch", !.col_start = 0,
                                  !.batch_size = BatchSize(wv.current_w, wv.current_h)]
              /\ UNCHANGED <<files, handles>>
    /\ UNCHANGED <<unitVars, args, outfile, pc, px, packets, rearr, result>>

\* phase 2A: the interleaved batch buffer, element row * batch_size + j
BatchRead(t, current_w, current_h, batch_size, col_start, cols) ==
    [i \in 1..(batch_size * current_h) |->
        LET row == (i - 1) \div batch_size
            j == (i - 1) % batch_size
        IN IF j < cols THEN t[row * current_w + col_start + j + 1] ELSE 0]

\* phase 2B: the 1-D kernel on every column of the batch, stride batch_size
BatchTransform(b, current_h, batch_size, cols) ==
    [i \in 1..(batch_size * current_h) |->
        LET row == (i - 1) \div batch_size
            j == (i - 1) % batch_size
            col == [r \in 1..current_h |-> b[(r - 1) * batch_size + j + 1]]
        IN IF j < cols THEN icer_wavelet_transform_1d_uint16(col)[row + 1] ELSE b[i]]

\* every batch written at the first columns of the region
BatchWriteAtFirstColumns(d, b, current_h, batch_size, col_start, cols) ==
    LET newlen == Max(Len(d), (current_h - 1) * width + cols) IN
    [i \in 1..newlen |->
        LET row == (i - 1) \div width
            c == (i - 1) % width
        IN IF row < current_h /\ c < cols
           THEN b[row * batch_size + c + 1]
           ELSE IF i <= Len(d) THEN d[i] ELSE 0]

\* phase 2C: the batch written row by row at row * width + col_start
BatchWrite(d, b, current_h, batch_size, col_start, cols) ==
    LET newlen == Max(Len(d), (current_h - 1) * width + col_start + cols) IN
    [i \in 1..newlen |->
        LET row == (i - 1) \div width
            c == (i - 1) % width
        IN IF row < current_h /\ c >= col_start /\ c < col_start + cols
           THEN b[row * batch_size + (c - col_start) + 1]
           ELSE IF i <= Len(d) THEN d[i] ELSE 0]

\* lines 451-674: one batch of columns read, transformed and written
W_ColBatch ==
    /\ wv.pc = "col_batch"
    /\ wv.col_start < wv.current_w
    /\ \E o \in {"ok", "read", "kernel", "write"} :
         LET cols_in_batch == IF wv.col_start + wv.batch_size > wv.current_w
                              THEN wv.current_w - wv.col_start ELSE wv.batch_size
             t == files[temp_file].data
             enough == Len(t) >= wv.current_w * wv.current_h
             rm == IF wv.stage > 0 THEN {temp_file, stage_output_file} ELSE {temp_file}
             all == {"temp_in", "stage_out", "input_file"}
         IN
         IF o = "read" \/ ~enough
         THEN WvFail(-12, {}, all, {"col_buffer_batch"}, rm, files)
         ELSE IF o = "kernel"
         THEN WvFail(-13, {}, all, {"col_buffer_batch"}, rm, files)
         ELSE IF o = "write"
         THEN WvFail(-14, {}, all, {"col_buffer_batch"}, rm, files)
         ELSE LET b0 == BatchRead(t, wv.current_w, wv.current_h, wv.batch_size,
                                  wv.col_start, cols_in_batch)
                  b1 == BatchTransform(b0, wv.current_h, wv.batch_size, cols_in_batch)
              IN
              /\ files' = SetData(files, stage_output_file,
                                  BatchWrite(files[stage_output_file].data, b1, wv.current_h,
                                             wv.batch_size, wv.col_start, cols_in_batch))
              /\ wv' = [wv EXCEPT !.col_start = @ + wv.batch_size]
              /\ UNCHANGED <<handles, heap>>
    /\ UNCHANGED <<unitVars, args, outfile, pc, px, packets, rearr, result>>

\* lines 774-775: the LL region of the next stage
NextDim(n) == (n \div 2) + (n % 2)

\* lines 676-776: close the stage files, copy the stage scratch back (stage > 0),
\* remove the row scratch and halve the dimensions
W_StageEnd ==
    /\ wv.pc = "col_batch"
    /\ wv.col_start >= wv.current_w
    /\ LET hp1 == Free(heap, {"col_buffer_batch"})
           hs1 == Close(handles, {"temp_in", "stage_out"})
           next == [wv EXCEPT !.pc = "stage_head", !.stage = @ + 1,
                              !.done_w = wv.current_w, !.done_h = wv.current_h,
                              !.current_w = NextDim(wv.current_w),
                              !.current_h = NextDim(wv.current_h)]
       IN
       IF wv.stage = 0
       THEN /\ heap' = hp1
            /\ handles' = hs1
            /\ files' = Remove(files, temp_file)
            /\ wv' = next
       ELSE \E o \in {"ok", "open_read", "open_write", "malloc", "read", "write"} :
              LET total_size == TotalSize(width, height)
                  n == total_size \div SizeofUint16
                  s == files[stage_temp_file].data
                  fs1 == Remove(files, wv.output)
                  fs2 == Create(fs1, wv.output)
                  rm == {stage_temp_file, temp_file}
                  temp_read == Handle("temp_read", stage_temp_file, "r")
                  final_write == Handle("final_write", wv.output, "w")
                  fail(code, opens, fs) ==
                      /\ wv' = [wv EXCEPT !.pc = "ret", !.ret = code]
                      /\ handles' = Close(hs1 \cup opens,
                                          {"temp_read", "final_write", "input_file"})
                      /\ heap' = hp1
                      /\ files' = RemoveAll(fs, rm)
              IN
              IF o = "open_read" \/ ~files[stage_temp_file].ex
              THEN fail(-19, {final_write}, fs2)
              ELSE IF o = "open_write"
              THEN fail(-19, {temp_read}, fs1)
              ELSE IF total_size > SIZE_MAX
              THEN fail(-25, {temp_read, final_write}, fs2)
              ELSE IF o = "malloc"
              THEN fail(-20, {temp_read, final_write}, fs2)
              ELSE IF o = "read" \/ Len(s) < n
              THEN fail(-21, {temp_read, final_write}, fs2)
              ELSE IF o = "write"
              THEN fail(-22, {temp_read, final_write}, fs2)
              ELSE /\ heap' = hp1
                   /\ handles' = hs1
                   /\ files' = RemoveAll(SetData(fs2, wv.output, Prefix(s, n)), rm)
                   /\ wv' = next
    /\ UNCHANGED <<unitVars, args, outfile, pc, px, packets, rearr, result>>

\* lines 779-783: all stages done
W_Return ==
    /\ wv.pc = "stage_head"
    /\ wv.stage >= stages
    /\ wv' = [wv EXCEPT !.pc = "ret", !.ret = 0]
    /\ handles' = Close(handles, {"input_file"})
    /\ UNCHANGED <<unitVars, args, files, outfile, heap, pc, px, packets, rearr, result>>

(***************************************************************************)
(* compressYuvWithIcerFlash                                                *)
(***************************************************************************)
\* a stage of the pipeline completed for channel (or packet, or segment) n
Done(stage, n) == [stage |-> stage, n |-> n]

InputFile(chan) ==
    IF chan = ICER_CHANNEL_Y THEN y_flash_file
    ELSE IF chan = ICER_CHANNEL_U THEN u_flash_file ELSE v_flash_file

TransformedTmp(chan) ==
    IF chan = ICER_CHANNEL_Y THEN y_transformed_tmp
    ELSE IF chan = ICER_CHANNEL_U THEN u_transformed_tmp ELSE v_transformed_tmp

\* every channel reads the plane of Y
channel_file_of_y(chan) ==
    IF channels_pre_transformed THEN y_flash_file ELSE y_transformed_tmp

\* lines 129-131, 184-186 and 218-219: the plane file coded for a channel
channel_file(chan) ==
    IF channels_pre_transformed THEN InputFile(chan) ELSE TransformedTmp(chan)

\* the cleanup removing the input planes with the transformed ones
CleanupFilesWithInputs ==
    IF channels_pre_transformed THEN {} ELSE InputFiles \cup TransformedTmpFiles

\* the files removed by "if (!channels_pre_transformed) { remove ... }"
CleanupFiles == IF channels_pre_transformed THEN {} ELSE TransformedTmpFiles

IcerBuffers == {"icer_packets_16", "icer_rearrange_segments_16", "icer_encode_circ_buf"}

\* a failure return: close, free, remove, set the error code; opens are the
\* handles opened since the last step
Fail(code, opens, closes, frees, removes, fs) ==
    /\ result' = [result EXCEPT !.error_code = code]
    /\ pc' = "returned"
    /\ handles' = Close(handles \cup opens, closes)
    /\ heap' = Free(heap, frees)
    /\ files' = RemoveAll(fs, removes)

\* allocateIcerBuffers (icer_compression.cpp lines 345-481): 0 or the code of
\* the allocation that failed
AllocResult(o) ==
    IF o = "alloc_packets" THEN -1
    ELSE IF o = "alloc_rearrange" THEN -2
    ELSE IF o = "alloc_circ_buf" THEN -3 ELSE 0

\* lines 93-126: allocate the ICER work buffers, initialise the library (after
\* the conversion, when the caller runs one: main.cpp lines 303-341)
P_Start ==
    /\ pc = "start"
    /\ cv.pc \in {"idle", "done"}
    /\ \E o \in {"ok", "init", "alloc_packets", "alloc_rearrange", "alloc_circ_buf"} :
         IF ~args.valid
         THEN /\ Fail(-200, {}, {}, {}, {}, files)
              /\ UNCHANGED px
         ELSE IF AllocResult(o) # 0
         THEN /\ Fail(-120 - AllocResult(o), {}, {}, {}, {}, files)
              /\ UNCHANGED px
         ELSE IF o = "init"
         THEN /\ Fail(ICER_FATAL_ERROR, {}, {}, IcerBuffers, {}, files)
              /\ UNCHANGED px
         ELSE /\ heap' = heap \cup IcerBuffers
              /\ pc' = IF channels_pre_transformed THEN "ll_alloc" ELSE "wavelet"
              /\ px' = [px EXCEPT !.chan = ICER_CHANNEL_Y]
              /\ UNCHANGED <<files, handles, result>>
    /\ UNCHANGED <<unitVars, args, outfile, wv, packets, rearr>>

\* lines 138-141, 152-155, 167-170: call streamingWaveletTransform for one channel
P_WaveletCall ==
    /\ pc = "wavelet"
    /\ wv.pc = "idle"
    /\ wv' = [WvIdle EXCEPT !.pc = "entry", !.input = InputFile(px.chan),
                            !.output = TransformedTmp(px.chan)]
    /\ UNCHANGED <<unitVars, args, files, outfile, handles, heap, pc, px, packets, rearr, result>>

\* lines 142-180: the transform returned
P_WaveletRet ==
    /\ pc = "wavelet"
    /\ wv.pc = "ret"
    /\ IF wv.ret # 0
       THEN /\ Fail(-201 - wv.ret, {}, {}, IcerBuffers,
                    {TransformedTmp(c) : c \in ICER_CHANNEL_MIN..(px.chan - 1)}, files)
            /\ UNCHANGED <<px, wv>>
       ELSE /\ wv' = WvIdle
            /\ px' = [px EXCEPT !.chan = IF px.chan < ICER_CHANNEL_MAX THEN @ + 1
                                          ELSE ICER_CHANNEL_MIN,
                                !.log = Append(@, Done("wavelet", px.chan))]
            /\ pc' = IF px.chan < ICER_CHANNEL_MAX THEN "wavelet" ELSE "ll_alloc"
            /\ UNCHANGED <<files, handles, heap, result>>
    /\ UNCHANGED <<unitVars, args, outfile, packets, rearr>>

RECURSIVE icer_pow_uint(_, _)
icer_pow_uint(base, exp) == IF exp = 0 THEN 1 ELSE base * icer_pow_uint(base, exp - 1)

icer_ceil_div_uint32(a, b) == (a + b - 1) \div b

\* width of the low-pass region after n stages
icer_get_dim_n_low_stages(dim, n) == icer_ceil_div_uint32(dim, icer_pow_uint(2, n))

\* lines 192-207: size and allocate the LL buffer
P_LLAlloc ==
    /\ pc = "ll_alloc"
    /\ \E o \in {"ok", "malloc"} :
         IF o = "malloc"
         THEN /\ Fail(-202, {}, {}, IcerBuffers, CleanupFiles, files)
              /\ UNCHANGED px
         ELSE /\ heap' = heap \cup {"ll_buffer"}
              /\ px' = [px EXCEPT !.chan = ICER_CHANNEL_MIN,
                                  !.ll_w = icer_get_dim_n_low_stages(width, stages),
                                  !.ll_h = icer_get_dim_n_low_stages(height, stages)]
              /\ pc' = "ll_mean"
              /\ UNCHANGED <<files, handles, result>>
    /\ UNCHANGED <<unitVars, args, outfile, wv, packets, rearr>>

\* the ll_w x ll_h samples at the top-left of a plane, row by row
LLRegion(d, ll_w, ll_h) ==
    [i \in 1..(ll_w * ll_h) |-> d[((i - 1) \div ll_w) * width + ((i - 1) % ll_w) + 1]]

LLReadable(d, ll_w, ll_h) == Len(d) >= (ll_h - 1) * width + ll_w

RECURSIVE SumSeq(_)
SumSeq(s) == IF s = <<>> THEN 0 ELSE s[1] + SumSeq(Tail(s))

\* lines 260-263: the mean of the LL samples read as unsigned 16-bit values
LLMean(d, ll_w, ll_h) == (SumSeq(LLRegion(d, ll_w, ll_h)) \div (ll_w * ll_h)) % 65536

\* a mean of any size accepted
MeanAlwaysFits(mean) == FALSE

\* line 270: the mean does not fit 15 bits
MeanOverflows(mean) == mean > INT16_MAX

\* lines 212-283: read the LL subband of one channel and compute its mean
P_LLMean ==
    /\ pc = "ll_mean"
    /\ \E o \in {"ok", "open", "read"} :
         LET f == channel_file(px.chan)
             d == files[f].data
             frees == {"ll_buffer"} \cup IcerBuffers
             mean == LLMean(d, px.ll_w, px.ll_h)
             chan_file == {Handle("chan_file", f, "r")}
         IN
         IF o = "open" \/ ~files[f].ex
         THEN /\ Fail(-203, {}, {}, frees, CleanupFiles, files)
              /\ UNCHANGED px
         ELSE IF o = "read" \/ ~LLReadable(d, px.ll_w, px.ll_h)
         THEN /\ Fail(-204, chan_file, {"chan_file"}, frees, CleanupFiles, files)
              /\ UNCHANGED px
         ELSE IF MeanOverflows(mean)
         THEN /\ Fail(ICER_INTEGER_OVERFLOW, chan_file, {"chan_file"}, frees, CleanupFiles,
                      files)
              /\ px' = [px EXCEPT !.ll_mean[px.chan] = mean]
         ELSE /\ px' = [px EXCEPT !.ll_mean[px.chan] = mean,
                                  !.chan = IF px.chan < ICER_CHANNEL_MAX THEN @ + 1
                                           ELSE ICER_CHANNEL_MIN,
                                  !.log = Append(@, Done("ll_mean", px.chan))]
              /\ pc' = IF px.chan < ICER_CHANNEL_MAX THEN "ll_mean" ELSE "ll_sub"
              /\ heap' = IF px.chan < ICER_CHANNEL_MAX THEN heap ELSE Free(heap, {"ll_buffer"})
              /\ UNCHANGED <<files, handles, result>>
    /\ UNCHANGED <<unitVars, args, outfile, wv, packets, rearr>>

\* lines 361-365: subtract the mean from the LL samples as signed 16-bit values
SubtractMean(d, ll_w, ll_h, mean) ==
    [i \in 1..Len(d) |->
        IF ((i - 1) \div width) < ll_h /\ ((i - 1) % width) < ll_w
        THEN (d[i] - mean) % 65536
        ELSE d[i]]

\* lines 302-404: subtract the LL mean of one channel in place
P_LLSubtract ==
    /\ pc = "ll_sub"
    /\ \E o \in {"ok", "open", "malloc", "read", "open_write", "write"} :
         LET f == channel_file(px.chan)
             d == files[f].data
             chan_file == {Handle("chan_file", f, "r")}
             chan_file_write_ll == {Handle("chan_file_write_ll", f, "w")}
         IN
         IF o = "open" \/ ~files[f].ex
         THEN /\ Fail(-203, {}, {}, IcerBuffers, CleanupFiles, files)
              /\ UNCHANGED px
         ELSE IF o = "malloc"
         THEN /\ Fail(-202, chan_file, {"chan_file"}, IcerBuffers, CleanupFiles, files)
              /\ UNCHANGED px
         ELSE IF o = "read" \/ ~LLReadable(d, px.ll_w, px.ll_h)
         THEN /\ Fail(-204, chan_file, {"chan_file"}, {"ll_buffer"} \cup IcerBuffers,
                      CleanupFiles, files)
              /\ UNCHANGED px
         ELSE IF o = "open_write"
         THEN /\ Fail(-205, chan_file, {"chan_file"}, {"ll_buffer"} \cup IcerBuffers,
                      CleanupFiles, files)
              /\ UNCHANGED px
         ELSE IF o = "write"
         THEN /\ Fail(-206, chan_file_write_ll, {"chan_file_write_ll"},
                      {"ll_buffer"} \cup IcerBuffers, CleanupFiles, files)
              /\ UNCHANGED px
         ELSE /\ files' = SetData(files, f, SubtractMean(d, px.ll_w, px.ll_h,
                                                        px.ll_mean[px.chan]))
              /\ px' = [px EXCEPT !.log = Append(@, Done("ll_sub", px.chan))]
              /\ pc' = "sign_mag"
              /\ UNCHANGED <<handles, heap, result>>
    /\ UNCHANGED <<unitVars, args, outfile, wv, packets, rearr>>

\* icer_to_sign_magnitude_int16 on one sample: sign bit and magnitude
ToSignMagnitude(x) == IF x < 32768 THEN x ELSE 32768 + ((65536 - x) % 32768)

icer_to_sign_magnitude_int16(row) == [i \in 1..Len(row) |-> ToSignMagnitude(row[i])]

\* lines 410-509: stream the plane through _temp_convert.tmp, row by row
\* (pre_convert keeps, for the properties, the plane contents of every conversion
\* of the channel)
P_SignMag ==
    /\ pc = "sign_mag"
    /\ \E o \in {"ok", "open_read", "open_write", "malloc", "read", "write"} :
         LET f == channel_file(px.chan)
             d == files[f].data
             n == width * height
             fs1 == Remove(files, temp_convert_file)
             fs2 == Create(fs1, temp_convert_file)
             both == {"chan_file_read", "chan_file_write"}
             rm == {temp_convert_file} \cup CleanupFiles
             chan_file_read == Handle("chan_file_read", f, "r")
             chan_file_write == Handle("chan_file_write", temp_convert_file, "w")
             opened == {chan_file_read, chan_file_write}
         IN
         IF o = "open_read" \/ ~files[f].ex
         THEN /\ Fail(-207, {chan_file_write}, both, IcerBuffers, rm, fs2)
              /\ UNCHANGED px
         ELSE IF o = "open_write"
         THEN /\ Fail(-207, {chan_file_read}, both, IcerBuffers, rm, fs1)
              /\ UNCHANGED px
         ELSE IF o = "malloc"
         THEN /\ Fail(-208, opened, both, IcerBuffers, rm, fs2)
              /\ UNCHANGED px
         ELSE IF o = "read" \/ Len(d) < n
         THEN /\ Fail(-209, opened, both, {"row_buffer"} \cup IcerBuffers, rm, fs2)
              /\ UNCHANGED px
         ELSE IF o = "write"
         THEN /\ Fail(-210, opened, both, {"row_buffer"} \cup IcerBuffers, rm, fs2)
              /\ UNCHANGED px
         ELSE /\ files' = SetData(fs2, temp_convert_file,
                                  icer_to_sign_magnitude_int16(Prefix(d, n)))
              /\ px' = [px EXCEPT !.pre_convert[px.chan] = Append(@, Prefix(d, n)),
                                  !.log = Append(@, Done("sign_mag", px.chan))]
              /\ pc' = "swap_back"
              /\ UNCHANGED <<handles, heap, result>>
    /\ UNCHANGED <<unitVars, args, outfile, wv, packets, rearr>>

\* lines 511-596: replace the plane by the converted copy
P_SwapBack ==
    /\ pc = "swap_back"
    /\ \E o \in {"ok", "open_read", "open_write", "malloc", "read", "write"} :
         LET f == channel_file(px.chan)
             total_size == TotalSize(width, height)
             n == total_size \div SizeofUint16
             t == files[temp_convert_file].data
             fs1 == Remove(files, f)
             fs2 == Create(fs1, f)
             both == {"temp_read", "orig_write"}
             rm == {temp_convert_file} \cup CleanupFiles
             temp_read == Handle("temp_read", temp_convert_file, "r")
             orig_write == Handle("orig_write", f, "w")
             opened == {temp_read, orig_write}
         IN
         IF o = "open_read" \/ ~files[temp_convert_file].ex
         THEN /\ Fail(-211, {orig_write}, both, IcerBuffers, rm, fs2)
              /\ UNCHANGED px
         ELSE IF o = "open_write"
         THEN /\ Fail(-211, {temp_read}, both, IcerBuffers, rm, fs1)
              /\ UNCHANGED px
         ELSE IF o = "malloc"
         THEN /\ Fail(-212, opened, both, IcerBuffers, rm, fs2)
              /\ UNCHANGED px
         ELSE IF o = "read" \/ Len(t) < n
         THEN /\ Fail(-213, opened, both, {"copy_buffer"} \cup IcerBuffers, rm, fs2)
              /\ UNCHANGED px
         ELSE IF o = "write"
         THEN /\ Fail(-214, opened, both, {"copy_buffer"} \cup IcerBuffers, rm, fs2)
              /\ UNCHANGED px
         ELSE /\ files' = Remove(SetData(fs2, f, Prefix(t, n)), temp_convert_file)
              /\ px' = [px EXCEPT !.chan = IF px.chan < ICER_CHANNEL_MAX THEN @ + 1
                                            ELSE ICER_CHANNEL_MIN]
              /\ pc' = IF px.chan < ICER_CHANNEL_MAX THEN "ll_sub" ELSE "quota"
              /\ UNCHANGED <<handles, heap, result>>
    /\ UNCHANGED <<unitVars, args, outfile, wv, packets, rearr>>

\* lines 601-668: byte quota, datastream buffer size, effective quota
ByteQuota == IF target_size = 0 THEN width * height * 6 ELSE target_size

\* a buffer of the size of the quota plus the margin, whatever the quota
BufferSizeUncapped(byte_quota) == byte_quota + DatastreamMargin

BufferSize(byte_quota) ==
    IF byte_quota < MAX_DATASTREAM_BUFFER_SIZE - DatastreamMargin
    THEN byte_quota + DatastreamMargin
    ELSE MAX_DATASTREAM_BUFFER_SIZE

EffectiveByteQuota(byte_quota, buffer_size) ==
    IF byte_quota > buffer_size THEN buffer_size ELSE byte_quota

P_Quota ==
    /\ pc = "quota"
    /\ \E o \in {"ok", "malloc"} :
         LET pixel_count == width * height
             byte_quota == ByteQuota
             buffer_size == BufferSize(byte_quota)
         IN
         IF target_size = 0 /\ pixel_count > SIZE_MAX \div 6
         THEN /\ Fail(-102, {}, {}, IcerBuffers, CleanupFiles, files)
              /\ UNCHANGED px
         ELSE IF o = "malloc"
         THEN /\ Fail(-105, {}, {}, IcerBuffers, CleanupFiles, files)
              /\ UNCHANGED px
         ELSE /\ heap' = heap \cup {"datastream"}
              /\ px' = [px EXCEPT !.byte_quota = byte_quota,
                                  !.buffer_size = buffer_size,
                                  !.effective_byte_quota =
                                      EffectiveByteQuota(byte_quota, buffer_size)]
              /\ pc' = "open_output"
              /\ UNCHANGED <<files, handles, result>>
    /\ UNCHANGED <<unitVars, args, outfile, wv, packets, rearr>>

NoOutFile == [ex |-> FALSE, segs |-> <<>>, size |-> 0]

\* icer_init_output_struct with the flash callback set: the quota must fit the buffer
icer_init_output_struct(buf_len, byte_quota) ==
    IF byte_quota > buf_len THEN ICER_OUTPUT_BUF_TOO_SMALL ELSE ICER_RESULT_OK

\* lines 670-714: remove and reopen the output file, initialise the output structure
P_OpenOutput ==
    /\ pc = "open_output"
    /\ \E o \in {"ok", "open"} :
         LET init_result == icer_init_output_struct(px.buffer_size, px.effective_byte_quota)
             created == [ex |-> TRUE, segs |-> <<>>, size |-> 0]
         IN
         IF o = "open"
         THEN /\ Fail(-206, {}, {}, {"datastream"} \cup IcerBuffers, CleanupFiles, files)
              /\ outfile' = NoOutFile
              /\ UNCHANGED px
         ELSE IF init_result # ICER_RESULT_OK
         THEN /\ Fail(init_result, {Handle("output_file", output_flash_file, "w")},
                      {"output_file"}, {"datastream"} \cup IcerBuffers, CleanupFiles, files)
              /\ outfile' = created
              /\ UNCHANGED px
         ELSE /\ outfile' = created
              /\ handles' = handles \cup {Handle("output_file", output_flash_file, "w")}
              /\ px' = [px EXCEPT !.size_allocated = px.effective_byte_quota,
                                  !.size_used = 0]
              /\ pc' = "build_packets"
              /\ UNCHANGED <<files, heap, result>>
    /\ UNCHANGED <<unitVars, args, wv, packets, rearr>>

(***************************************************************************)
(* Packet list (lines 721-839)                                             *)
(***************************************************************************)
\* x << n; priorities stay far below 2^32 for every stage and bit-plane count
Shl(x, n) == x * icer_pow_uint(2, n)

Packet(subband_type, decomp_level, ll_mean_val, lsb, priority, channel) ==
    [subband_type |-> subband_type, decomp_level |-> decomp_level,
     ll_mean_val |-> ll_mean_val, lsb |-> lsb, priority |-> priority,
     channel |-> channel]

\* lines 723-802: iteration n of the loop nest over (curr_stage, lsb, chan); the
\* running priority is reset at the start of a stage and doubled at channel Y
RECURSIVE BuildHigh(_, _, _, _, _)
BuildHigh(n, S, ll_mean, priority_in, pk) ==
    IF n >= S * ICER_BITPLANES_TO_COMPRESS_16 * NumChannels
    THEN [pk |-> pk, failed |-> FALSE]
    ELSE
    LET curr_stage == (n \div (ICER_BITPLANES_TO_COMPRESS_16 * NumChannels)) + 1
        lsb == (n \div NumChannels) % ICER_BITPLANES_TO_COMPRESS_16
        chan == ICER_CHANNEL_MIN + (n % NumChannels)
        p0 == IF lsb = 0 /\ chan = ICER_CHANNEL_MIN
              THEN icer_pow_uint(2, curr_stage) ELSE priority_in
        priority == IF chan = ICER_CHANNEL_Y THEN p0 * 2 ELSE p0
        pk1 == Append(pk, Packet(ICER_SUBBAND_HL, curr_stage, ll_mean[chan], lsb,
                                 Shl(priority, lsb), chan))
        pk2 == Append(pk1, Packet(ICER_SUBBAND_LH, curr_stage, ll_mean[chan], lsb,
                                  Shl(priority, lsb), chan))
        pk3 == Append(pk2, Packet(ICER_SUBBAND_HH, curr_stage, ll_mean[chan], lsb,
                                  Shl(priority \div 2, lsb) + 1, chan))
    IN IF Len(pk1) >= ICER_MAX_PACKETS_16 THEN [pk |-> pk1, failed |-> TRUE]
       ELSE IF Len(pk2) >= ICER_MAX_PACKETS_16 THEN [pk |-> pk2, failed |-> TRUE]
       ELSE IF Len(pk3) >= ICER_MAX_PACKETS_16 THEN [pk |-> pk3, failed |-> TRUE]
       ELSE BuildHigh(n + 1, S, ll_mean, priority, pk3)

\* lines 805-833: the LL packets of the last stage
RECURSIVE BuildLL(_, _, _, _, _)
BuildLL(n, S, ll_mean, priority_in, pk) ==
    IF n >= ICER_BITPLANES_TO_COMPRESS_16 * NumChannels
    THEN [pk |-> pk, failed |-> FALSE]
    ELSE
    LET lsb == n \div NumChannels
        chan == ICER_CHANNEL_MIN + (n % NumChannels)
        p0 == IF n = 0 THEN icer_pow_uint(2, S) ELSE priority_in
        priority == IF chan = ICER_CHANNEL_Y THEN p0 * 2 ELSE p0
        pk1 == Append(pk, Packet(ICER_SUBBAND_LL, S, ll_mean[chan], lsb,
                                 Shl(2 * priority, lsb), chan))
    IN IF Len(pk1) >= ICER_MAX_PACKETS_16 THEN [pk |-> pk1, failed |-> TRUE]
       ELSE BuildLL(n + 1, S, ll_mean, priority, pk1)

BuildPackets(S, ll_mean) ==
    LET hi == BuildHigh(0, S, ll_mean, 0, <<>>)
    IN IF hi.failed THEN hi ELSE BuildLL(0, S, ll_mean, 0, hi.pk)

\* lines 721-833: fill icer_packets_16
P_BuildPackets ==
    /\ pc = "build_packets"
    /\ LET b == BuildPackets(stages, px.ll_mean) IN
       /\ packets' = b.pk
       /\ IF b.failed
          THEN Fail(ICER_PACKET_COUNT_EXCEEDED, {}, {"output_file"},
                    {"datastream"} \cup IcerBuffers, CleanupFiles, files)
          ELSE /\ pc' = "sort"
               /\ UNCHANGED <<files, handles, heap, result>>
    /\ UNCHANGED <<unitVars, args, outfile, wv, px, rearr>>

\* ties broken by subband_type descending
comp_packet_subband_descending(a, b) ==
    IF a.priority = b.priority
    THEN IF a.subband_type > b.subband_type THEN -1
         ELSE IF a.subband_type < b.subband_type THEN 1 ELSE 0
    ELSE IF a.priority > b.priority THEN -1 ELSE 1

\* lines 21-28
comp_packet(a, b) ==
    IF a.priority = b.priority
    THEN IF a.subband_type > b.subband_type THEN 1
         ELSE IF a.subband_type < b.subband_type THEN -1 ELSE 0
    ELSE IF a.priority > b.priority THEN -1 ELSE 1

\* qsort leaves the order of elements that compare equal unspecified: the model
\* keeps them in their order in the array ("stable") or reverses it ("reversed")
TieOrders == {"stable", "reversed"}

\* the number of elements of s that the sort places before s[i]
SortRank(s, i, tie) ==
    Cardinality({j \in 1..Len(s) :
        \/ comp_packet(s[j], s[i]) < 0
        \/ /\ comp_packet(s[j], s[i]) = 0
           /\ IF tie = "stable" THEN j < i ELSE j > i})

\* line 839
qsort(s, tie) ==
    [r \in 1..Len(s) |-> s[CHOOSE i \in 1..Len(s) : SortRank(s, i, tie) = r - 1]]

\* lines 835-853: sort the packets, clear the segment index
P_Sort ==
    /\ pc = "sort"
    /\ \E tie \in TieOrders : packets' = qsort(packets, tie)
    /\ rearr' = {}
    /\ pc' = "packets"
    /\ px' = [px EXCEPT !.it = 0]
    /\ UNCHANGED <<unitVars, args, files, outfile, handles, heap, wv, result>>

(***************************************************************************)
(* Partition coding (lines 862-970, flash_partition.cpp)                   *)
(***************************************************************************)
\* icer_generate_partition_parameters
icer_generate_partition_parameters(segs) ==
    IF segs > ICER_MAX_SEGMENTS THEN ICER_TOO_MANY_SEGMENTS ELSE ICER_RESULT_OK

\* number of bits the bit-plane coder produces for one segment of a packet
CoderBits(p, segment_num) ==
    (7 * p.lsb + 5 * segment_num + 3 * p.channel + p.subband_type + p.decomp_level) % 19

Entry(p, segment_num, data_length) ==
    [chan |-> p.channel, stage |-> p.decomp_level, subband |-> p.subband_type,
     lsb |-> p.lsb, seg |-> segment_num, data_length |-> data_length]

\* the failed allocation left in the datastream
KeepFailedAllocation(allocated) == allocated

\* line 170: the datastream is rewound by the header of the failed segment
ReleaseFailedAllocation(allocated) == allocated - SizeofSegmentHeader

\* the whole bytes of the payload only
data_in_whole_bytes(output_ind, output_bit_offset) == output_ind

\* line 176
data_in_bytes(output_ind, output_bit_offset) ==
    output_ind + (IF output_bit_offset > 0 THEN 1 ELSE 0)

\* flash_partition.cpp lines 150-184 for the segments segment_num, segment_num + 1, ...:
\* allocate the header, code the segment into what is left of the quota, register it;
\* the coder returns non-OK when the quota is used up, and at segment fail_at
RECURSIVE icer_compress_partition_uint16_flash(_, _, _, _, _)
icer_compress_partition_uint16_flash(p, segment_num, size_used, regs, fail_at) ==
    IF segment_num >= segments
    THEN [res |-> ICER_RESULT_OK, size_used |-> size_used, regs |-> regs]
    ELSE IF px.size_allocated - size_used < SizeofSegmentHeader
    THEN [res |-> ICER_BYTE_QUOTA_EXCEEDED, size_used |-> size_used, regs |-> regs]
    ELSE
    LET allocated == size_used + SizeofSegmentHeader
        bits == CoderBits(p, segment_num)
        output_ind == bits \div 8
        output_bit_offset == bits % 8
        bytes == data_in_bytes(output_ind, output_bit_offset)
        data_length == output_ind * 8 + output_bit_offset
    IN IF segment_num = fail_at
       THEN [res |-> ICER_BITPLANE_OUT_OF_RANGE,
             size_used |-> ReleaseFailedAllocation(allocated), regs |-> regs]
       ELSE IF icer_ceil_div_uint32(bits, 8) > px.size_allocated - allocated
       THEN [res |-> ICER_BYTE_QUOTA_EXCEEDED,
             size_used |-> ReleaseFailedAllocation(allocated), regs |-> regs]
       ELSE icer_compress_partition_uint16_flash(p, segment_num + 1,
                allocated + bytes,
                regs \cup {Entry(p, segment_num, data_length)}, fail_at)

\* the failure path that closes the channel file only
PacketFailureClosesChannelOnly == {"channel_file_handle"}

\* lines 928-931 and 954-959: the handles closed when a packet cannot be coded
PacketFailureCloses == {"channel_file_handle", "output_file"}

\* the packet loop left after its first iteration
PacketLoopStopsAfterFirst(it) == it < Min(1, Len(packets))

\* line 862: the condition of the packet loop
PacketLoopContinues(it) == it < Len(packets)

\* lines 862-970: one iteration of the packet loop
P_Packet ==
    /\ pc = "packets"
    /\ PacketLoopContinues(px.it)
    /\ LET p == packets[px.it + 1]
           finish == {"datastream"} \cup IcerBuffers
           channel_file_handle ==
               {Handle("channel_file_handle", channel_file(p.channel), "r")}
       IN
       \E o \in {"ok", "open", "malloc", "read", "coder"} :
       \E fail_at \in (IF o = "coder" THEN 0..(Max(segments, 1) - 1) ELSE {-1}) :
         IF p.subband_type \notin ICER_SUBBAND_LL..ICER_SUBBAND_MAX
         THEN /\ Fail(ICER_FATAL_ERROR, {}, {}, finish, CleanupFiles, files)
              /\ UNCHANGED <<px, rearr>>
         ELSE IF o = "open"
         THEN /\ Fail(-207, {}, {"output_file"}, finish, CleanupFiles, files)
              /\ UNCHANGED <<px, rearr>>
         ELSE IF icer_generate_partition_parameters(segments) # ICER_RESULT_OK
         THEN /\ Fail(icer_generate_partition_parameters(segments), channel_file_handle,
                      PacketFailureCloses, finish, CleanupFiles, files)
              /\ UNCHANGED <<px, rearr>>
         ELSE
         LET none == [res |-> ICER_FATAL_ERROR, size_used |-> px.size_used, regs |-> rearr]
             run == IF o \in {"malloc", "read"} THEN none
                    ELSE icer_compress_partition_uint16_flash(p, 0, px.size_used, rearr,
                                                              fail_at)
         IN /\ rearr' = run.regs
            /\ IF run.res # ICER_RESULT_OK
               THEN /\ px' = [px EXCEPT !.size_used = run.size_used]
                    /\ Fail(run.res, channel_file_handle, PacketFailureCloses, finish,
                            CleanupFiles, files)
               ELSE /\ px' = [px EXCEPT !.size_used = run.size_used, !.it = @ + 1,
                                        !.log = Append(@, Done("code", px.it))]
                    /\ pc' = IF PacketLoopContinues(px.it + 1) THEN "packets" ELSE "emit"
                    /\ UNCHANGED <<files, handles, heap, result>>
    /\ UNCHANGED <<unitVars, args, outfile, wv, packets>>

(***************************************************************************)
(* Emission and verification (lines 987-1124)                              *)
(***************************************************************************)
\* the loop nest with the channel loop running from V down to Y
EmitIterationChannelsDescending(e) ==
    ((((e.seg * (ICER_SUBBAND_MAX + 1) + (ICER_SUBBAND_MAX - e.subband))
          * (ICER_MAX_DECOMP_STAGES + 1) + (ICER_MAX_DECOMP_STAGES - e.stage))
          * ICER_BITPLANES_TO_COMPRESS_16 + (ICER_BITPLANES_TO_COMPRESS_16 - 1 - e.lsb))
          * NumChannels) + (ICER_CHANNEL_MAX - e.chan)

\* number of the iteration of the loop nest of lines 994-998 that visits an entry
EmitIteration(e) ==
    ((((e.seg * (ICER_SUBBAND_MAX + 1) + (ICER_SUBBAND_MAX - e.subband))
          * (ICER_MAX_DECOMP_STAGES + 1) + (ICER_MAX_DECOMP_STAGES - e.stage))
          * ICER_BITPLANES_TO_COMPRESS_16 + (ICER_BITPLANES_TO_COMPRESS_16 - 1 - e.lsb))
          * NumChannels) + (e.chan - ICER_CHANNEL_MIN)

\* the non-NULL entries the loop nest has not visited yet
Pending == {e \in rearr : EmitIteration(e) > px.cursor}

\* the payload length rounded down to whole bytes
SegmentLenRoundedDown(e) == (e.data_length \div 8) + SizeofSegmentHeader

\* line 1008
SegmentLen(e) == icer_ceil_div_uint32(e.data_length, 8) + SizeofSegmentHeader

\* lines 999-1033: the loop nest reaches the next non-NULL entry and writes it
P_Emit ==
    /\ pc = "emit"
    /\ Pending # {}
    /\ LET e == CHOOSE x \in Pending : \A y \in Pending : EmitIteration(x) <= EmitIteration(y)
           len == SegmentLen(e)
       IN
       \E written \in {len, len - 1, 0} :
         IF written # len
         THEN /\ outfile' = [outfile EXCEPT !.size = @ + written]
              /\ Fail(ICER_FATAL_ERROR, {}, {"output_file"}, {"datastream"} \cup IcerBuffers,
                      CleanupFiles, files)
              /\ UNCHANGED px
         ELSE /\ outfile' = [outfile EXCEPT !.segs = Append(@, e), !.size = @ + len]
              /\ px' = [px EXCEPT !.cursor = EmitIteration(e),
                                  !.rearrange_offset = @ + len,
                                  !.log = Append(@, Done("emit", Len(outfile.segs)))]
              /\ UNCHANGED <<files, handles, heap, pc, result>>
    /\ UNCHANGED <<unitVars, args, wv, packets, rearr>>

\* lines 1056-1124: close the output, compare its size with the bytes emitted
P_Verify ==
    /\ pc = "emit"
    /\ Pending = {}
    /\ LET size_used == px.rearrange_offset
           finish == {"datastream"} \cup IcerBuffers
       IN
       \E o \in {"ok", "open", "size"} :
         LET file_size == IF o = "size" THEN 0 ELSE outfile.size IN
         /\ px' = [px EXCEPT !.size_used = size_used,
                             !.log = IF o # "open" /\ outfile.ex /\ file_size = size_used
                                     THEN Append(@, Done("verify", 0)) ELSE @]
         /\ IF o = "open" \/ ~outfile.ex
            THEN /\ Fail(-114, {}, {"output_file"}, finish, CleanupFiles, files)
                 /\ UNCHANGED outfile
            ELSE IF file_size = size_used
            THEN /\ result' = [compressed_size |-> size_used,
                               flash_filename |-> output_flash_file,
                               success |-> TRUE, error_code |-> 0]
                 /\ handles' = Close(handles, {"output_file"})
                 /\ heap' = Free(heap, finish)
                 /\ files' = RemoveAll(files, CleanupFiles)
                 /\ pc' = "returned"
                 /\ UNCHANGED outfile
            ELSE /\ Fail(-113, {Handle("verify_file", output_flash_file, "r")},
                         {"verify_file", "output_file"}, finish, CleanupFiles, files)
                 /\ outfile' = NoOutFile
    /\ UNCHANGED <<unitVars, args, wv, packets, rearr>>

\* the size arithmetic is not running
OvIdle == [pc |-> "idle", width |-> 0, height |-> 0, stages |-> 0, row |-> 0,
           row_size |-> 0, ret |-> 0, issued |-> {}]

\* no function is explored on its own
UnIdle == [pc |-> "idle"]

\* the File object of the SD library: valid or not, open or not, its position,
\* its size and the number of times it has been closed
File(valid, size) == [valid |-> valid, open |-> valid, pos |-> 0, size |-> size, closes |-> 0]

\* no SpresenceSDFile object exists
SdIdle == [pc |-> "none", file_handle |-> File(FALSE, 0), is_open |-> FALSE,
           close_called |-> FALSE,
           last |-> [op |-> "none", ret |-> 0, after_close |-> FALSE]]

(***************************************************************************)
(* The calls explored                                                      *)
(***************************************************************************)
\* target_size of main.cpp, and 0 (lossless: the quota is 6 bytes per pixel)
TargetSizes == {0, MAX_DATASTREAM_BUFFER_SIZE}

\* sample i of the input plane of a channel: 8-bit pixel values, or values with
\* the top bit set
InputSample(pattern, chan, i) ==
    IF pattern = "pixels" THEN (37 * i + 50 * chan + 11) % 256 ELSE 40000 + i

InputPlane(pattern, chan, w, h) == [i \in 1..(w * h) |-> InputSample(pattern, chan, i)]

ChannelOf(name) ==
    IF name = y_flash_file THEN ICER_CHANNEL_Y
    ELSE IF name = u_flash_file THEN ICER_CHANNEL_U ELSE ICER_CHANNEL_V

(***************************************************************************)
(* convertJpegToSeparateChannels (camera_yuv.cpp) and its caller           *)
(***************************************************************************)
temp_jpeg_file == "_temp_jpeg.tmp"
temp_rgb_file == "_temp_rgb.tmp"

ConvertFiles == {temp_jpeg_file, temp_rgb_file}
StorageFiles == PlaneFiles \cup ConvertFiles

CvIdle == [pc |-> "idle", ret |-> 0, row |-> 0]

Scanlines == {"rgb_scanline", "y_scanline", "u_scanline", "v_scanline"}

CvFail(code, opens, closes, frees, removes, fs) ==
    /\ cv' = [cv EXCEPT !.pc = "ret", !.ret = code]
    /\ handles' = Close(handles \cup opens, closes)
    /\ heap' = Free(heap, frees)
    /\ files' = RemoveAll(fs, removes)

\* lines 322-362: copy the camera's JPEG to storage
C_SaveJpeg ==
    /\ cv.pc = "entry"
    /\ \E o \in {"ok", "unavailable", "empty", "open", "write"} :
         LET fs1 == Remove(files, temp_jpeg_file)
             fs2 == Create(fs1, temp_jpeg_file)
         IN
         IF o = "unavailable" THEN CvFail(-1, {}, {}, {}, {}, files)
         ELSE IF o = "empty" THEN CvFail(-2, {}, {}, {}, {}, files)
         ELSE IF o = "open" THEN CvFail(-3, {}, {}, {}, {}, fs1)
         ELSE IF o = "write"
         THEN CvFail(-4, {Handle("jpeg_flash_file", temp_jpeg_file, "w")},
                     {"jpeg_flash_file"}, {}, {temp_jpeg_file}, fs2)
         ELSE /\ files' = fs2
              /\ cv' = [cv EXCEPT !.pc = "decode"]
              /\ UNCHANGED <<handles, heap>>
    /\ UNCHANGED <<ov, sd, un, args, outfile, pc, wv, px, packets, rearr, result>>

\* lines 372-524: decode the JPEG from storage into the RGB scratch file
C_Decode ==
    /\ cv.pc = "decode"
    /\ \E o \in {"ok", "open_rgb", "open_jpeg", "malloc", "prepare", "dims", "decomp"} :
         LET fs1 == Remove(files, temp_rgb_file)
             fs2 == Create(fs1, temp_rgb_file)
             rgb_flash_file == Handle("rgb_flash_file", temp_rgb_file, "w")
             jpeg_file == Handle("jpeg_file", temp_jpeg_file, "r")
             both == {"jpeg_file", "rgb_flash_file"}
         IN
         IF o = "open_rgb"
         THEN CvFail(-5, {}, {}, {}, {temp_jpeg_file}, fs1)
         ELSE IF o = "open_jpeg" \/ ~files[temp_jpeg_file].ex
         THEN CvFail(-6, {rgb_flash_file}, {"rgb_flash_file"}, {}, ConvertFiles, fs2)
         ELSE IF o = "malloc"
         THEN CvFail(-7, {rgb_flash_file, jpeg_file}, both, {}, ConvertFiles, fs2)
         ELSE IF o = "prepare"
         THEN CvFail(-8, {rgb_flash_file, jpeg_file}, both, {"work_buf"}, ConvertFiles, fs2)
         ELSE IF o = "dims"
         THEN CvFail(-9, {rgb_flash_file, jpeg_file}, both, {"work_buf"}, ConvertFiles, fs2)
         ELSE IF o = "decomp"
         THEN CvFail(-11, {rgb_flash_file, jpeg_file}, both, {"work_buf"}, ConvertFiles, fs2)
         ELSE /\ files' = Remove(fs2, temp_jpeg_file)
              /\ cv' = [cv EXCEPT !.pc = "open_channels"]
              /\ UNCHANGED <<handles, heap>>
    /\ UNCHANGED <<ov, sd, un, args, outfile, pc, wv, px, packets, rearr, result>>

\* the cleanup that leaves the RGB scratch to the caller, as the success path does
ChannelCleanupKeepsRgb == InputFiles

\* lines 558-561, 574-577, 598-601, 633-636, 671-674: the files removed when the
\* RGB -> YUV split fails
ChannelCleanup == {temp_rgb_file} \cup InputFiles

ChannelHandle(n) ==
    Handle(IF n = y_flash_file THEN "y_file" ELSE IF n = u_flash_file THEN "u_file"
           ELSE "v_file", n, "w")

ChannelHandleNames == {"y_file", "u_file", "v_file"}

\* lines 533-603: open the three channel files and the RGB scratch, allocate the
\* scanline buffers
C_OpenChannels ==
    /\ cv.pc = "open_channels"
    /\ \E o \in {"ok", "open_channel", "open_rgb", "malloc"}, failed \in InputFiles :
         LET fs1 == RemoveAll(files, InputFiles)
             created(S) == [n \in DOMAIN fs1 |->
                              IF n \in S THEN [ex |-> TRUE, data |-> <<>>] ELSE fs1[n]]
             channels == {ChannelHandle(n) : n \in InputFiles}
             rgb_read_file == Handle("rgb_read_file", temp_rgb_file, "r")
         IN
         IF o = "open_channel"
         THEN CvFail(-12, {ChannelHandle(n) : n \in InputFiles \ {failed}},
                     ChannelHandleNames, {}, ChannelCleanup, created(InputFiles \ {failed}))
         ELSE IF o = "open_rgb" \/ ~files[temp_rgb_file].ex
         THEN CvFail(-13, channels, ChannelHandleNames, {}, ChannelCleanup,
                     created(InputFiles))
         ELSE IF o = "malloc"
         THEN CvFail(-14, channels \cup {rgb_read_file},
                     ChannelHandleNames \cup {"rgb_read_file"}, {}, ChannelCleanup,
                     created(InputFiles))
         ELSE /\ files' = created(InputFiles)
              /\ handles' = handles \cup channels \cup {rgb_read_file}
              /\ heap' = heap \cup Scanlines
              /\ cv' = [cv EXCEPT !.pc = "rows", !.row = 0]
    /\ UNCHANGED <<ov, sd, un, args, outfile, pc, wv, px, packets, rearr, result>>

\* lines 641-654: scanline row of every channel appended to its file
AppendScanlines(fs, row) ==
    [n \in DOMAIN fs |->
        IF n \in InputFiles
        THEN [ex |-> TRUE,
              data |-> fs[n].data \o
                       SubSeq(InputPlane(args.pattern, ChannelOf(n), width, height),
                              row * width + 1, (row + 1) * width)]
        ELSE fs[n]]

\* lines 608-677: one scanline read, converted and written to the three channels
C_Row ==
    /\ cv.pc = "rows"
    /\ cv.row < height
    /\ \E o \in {"ok", "read", "write"} :
         LET all == ChannelHandleNames \cup {"rgb_read_file"} IN
         IF o = "read"
         THEN CvFail(-15, {}, all, Scanlines, ChannelCleanup, files)
         ELSE IF o = "write"
         THEN CvFail(-16, {}, all, Scanlines, ChannelCleanup, files)
         ELSE /\ files' = AppendScanlines(files, cv.row)
              /\ cv' = [cv EXCEPT !.row = @ + 1]
              /\ UNCHANGED <<handles, heap>>
    /\ UNCHANGED <<ov, sd, un, args, outfile, pc, wv, px, packets, rearr, result>>

\* lines 680-725: free the scanlines, close the four files, return 0
C_Finish ==
    /\ cv.pc = "rows"
    /\ cv.row >= height
    /\ heap' = Free(heap, Scanlines)
    /\ handles' = Close(handles, ChannelHandleNames \cup {"rgb_read_file"})
    /\ cv' = [cv EXCEPT !.pc = "ret", !.ret = 0]
    /\ UNCHANGED <<ov, sd, un, args, files, outfile, pc, wv, px, packets, rearr, result>>

\* main.cpp lines 289-305: the caller removes the RGB scratch and gives up when
\* the conversion failed
M_AfterConvert ==
    /\ cv.pc = "ret"
    /\ files' = Remove(files, temp_rgb_file)
    /\ cv' = [cv EXCEPT !.pc = IF cv.ret = 0 THEN "done" ELSE "failed"]
    /\ UNCHANGED <<ov, sd, un, args, outfile, handles, heap, pc, wv, px, packets, rearr, result>>

\* the call of main.cpp: valid parameters, planes produced by the conversion
ConvertFirst == args.valid /\ ~args.channels_pre_transformed /\ args.pattern = "pixels"

PxInit == [chan |-> ICER_CHANNEL_MIN, ll_w |-> 0, ll_h |-> 0,
           ll_mean |-> [c \in Channels |-> 0],
           byte_quota |-> 0, buffer_size |-> 0, effective_byte_quota |-> 0,
           size_allocated |-> 0, size_used |-> 0, it |-> 0, cursor |-> -1,
           rearrange_offset |-> 0,
           pre_convert |-> [c \in Channels |-> <<>>],
           log |-> <<>>]

Init ==
    /\ args \in [width : 1..MaxDim, height : 1..MaxDim, stages : 0..MaxStages,
                 segments : 1..(ICER_MAX_SEGMENTS + 1), target_size : TargetSizes,
                 channels_pre_transformed : BOOLEAN, pattern : {"pixels", "neg"},
                 valid : BOOLEAN]
    /\ args.valid \/ (args.target_size = 0 /\ args.pattern = "pixels")
    /\ files = [n \in StorageFiles |->
                  IF n \in InputFiles /\ ~ConvertFirst
                  THEN [ex |-> TRUE,
                        data |-> InputPlane(args.pattern, ChannelOf(n), width, height)]
                  ELSE NoFile]
    /\ outfile = NoOutFile
    /\ handles = {}
    /\ heap = {}
    /\ pc = "start"
    /\ wv = WvIdle
    /\ px = PxInit
    /\ packets = <<>>
    /\ rearr = {}
    /\ result = [compressed_size |-> 0, flash_filename |-> "", success |-> FALSE,
                 error_code |-> 0]
    /\ ov = OvIdle
    /\ sd = SdIdle
    /\ un = UnIdle
    /\ cv = IF ConvertFirst THEN [CvIdle EXCEPT !.pc = "entry"] ELSE CvIdle

Next ==
    \/ C_SaveJpeg
    \/ C_Decode
    \/ C_OpenChannels
    \/ C_Row
    \/ C_Finish
    \/ M_AfterConvert
    \/ P_Start
    \/ P_WaveletCall
    \/ W_Entry
    \/ W_StageHead
    \/ W_RowPass
    \/ W_ColOpen
    \/ W_ZeroFill
    \/ W_CopyExisting
    \/ W_ColAlloc
    \/ W_ColBatch
    \/ W_StageEnd
    \/ W_Return
    \/ P_WaveletRet
    \/ P_LLAlloc
    \/ P_LLMean
    \/ P_LLSubtract
    \/ P_SignMag
    \/ P_SwapBack
    \/ P_Quota
    \/ P_OpenOutput
    \/ P_BuildPackets
    \/ P_Sort
    \/ P_Packet
    \/ P_Emit
    \/ P_Verify

Spec == Init /\ [][Next]_vars

(***************************************************************************)
(* main.cpp lines 358-366: what the caller removes after a failed call     *)
(***************************************************************************)
OutputAfterCaller ==
    IF ~result.success /\ result.flash_filename # "" THEN NoOutFile ELSE outfile

(***************************************************************************)
(* Properties                                                              *)
(***************************************************************************)
Returned == pc = "returned"

\* C1: after compressYuvWithIcerFlash (channels_pre_transformed = false) returns,
\* on success and on every failure path, none of the transformed planes and
\* none of the scratch files exists on storage.
C1_NoTemporaryFileAfterReturn ==
    (Returned /\ ~channels_pre_transformed)
        => \A n \in TransformedTmpFiles \cup ScratchFiles : ~files[n].ex

\* C2: whenever the call returns with success = false, the output bitstream file
\* does not exist once control is back in the caller.
C2_NoOutputFileAfterFailure ==
    (Returned /\ ~result.success) => ~OutputAfterCaller.ex

RECURSIVE SumOfSegmentSizes(_)
SumOfSegmentSizes(S) ==
    IF S = {} THEN 0
    ELSE LET e == CHOOSE x \in S : TRUE
         IN (SizeofSegmentHeader + ((e.data_length + 7) \div 8)) + SumOfSegmentSizes(S \ {e})

\* C3: success = true only if the output file exists and its size equals
\* compressed_size, which is the sum over the non-null index entries of
\* sizeof(header) + ceil(data_length / 8); then error_code = 0 and flash_filename
\* names the output file; every other return has success = false and a non-zero
\* error_code.
C3_SuccessContract ==
    Returned =>
        IF result.success
        THEN /\ outfile.ex
             /\ outfile.size = result.compressed_size
             /\ result.compressed_size = SumOfSegmentSizes(rearr)
             /\ result.error_code = 0
             /\ result.flash_filename = output_flash_file
        ELSE result.error_code # 0

C3_Witness ==
    /\ Returned
    /\ result.success
    /\ Cardinality(rearr) > 1
    /\ \E e \in rearr : e.data_length % 8 # 0

\* C4: a BYTE_QUOTA_EXCEEDED result of the partition coder does not make the
\* call fail: it never returns success = false with that result as its error.
C4_QuotaExceededIsNotAFailure ==
    ~(Returned /\ ~result.success /\ result.error_code = ICER_BYTE_QUOTA_EXCEEDED)

\* the order of the claim: segment index ascending, subband descending, stage
\* descending, bit-plane descending, channel ascending (a strict lexicographic
\* order, hence transitive: it holds of every pair when it holds of neighbours)
EmittedBefore(a, b) ==
    \/ a.seg < b.seg
    \/ /\ a.seg = b.seg
       /\ \/ a.subband > b.subband
          \/ /\ a.subband = b.subband
             /\ \/ a.stage > b.stage
                \/ /\ a.stage = b.stage
                   /\ \/ a.lsb > b.lsb
                      \/ a.lsb = b.lsb /\ a.chan < b.chan

Sign(x) == IF x < 0 THEN -1 ELSE IF x > 0 THEN 1 ELSE 0

PacketSet == {packets[i] : i \in 1..Len(packets)}

\* C6: after the sort, consecutive packets p, q have p.priority > q.priority, or
\* equal priorities and p.subband_type <= q.subband_type; and comp_packet is
\* antisymmetric and transitive over the packets of the list.
C6_SortedByPriority ==
    /\ pc \in {"packets", "emit"} =>
          \A i \in 1..(Len(packets) - 1) :
              \/ packets[i].priority > packets[i + 1].priority
              \/ /\ packets[i].priority = packets[i + 1].priority
                 /\ packets[i].subband_type <= packets[i + 1].subband_type
    /\ pc = "sort" =>
          /\ \A a, b \in PacketSet : Sign(comp_packet(a, b)) = -Sign(comp_packet(b, a))
          /\ \A a, b, c \in PacketSet :
                (comp_packet(a, b) <= 0 /\ comp_packet(b, c) <= 0) => comp_packet(a, c) <= 0

\* a sorted list in which two neighbours tie on priority and differ in subband
C6_Witness ==
    /\ pc = "packets"
    /\ \E i \in 1..(Len(packets) - 1) :
          /\ packets[i].priority = packets[i + 1].priority
          /\ packets[i].subband_type < packets[i + 1].subband_type
    /\ \E i \in 1..(Len(packets) - 1) : packets[i].priority > packets[i + 1].priority

\* C7: for every stage k, bit-plane b and the subbands HL and LH, the priority is
\* (2^k) << b for U and V and (2 * 2^k) << b for Y.
C7_PriorityFormula ==
    \A i \in 1..Len(packets) :
        LET p == packets[i] IN
        p.subband_type \in {ICER_SUBBAND_HL, ICER_SUBBAND_LH} =>
            p.priority = IF p.channel = ICER_CHANNEL_Y
                         THEN Shl(2 * icer_pow_uint(2, p.decomp_level), p.lsb)
                         ELSE Shl(icer_pow_uint(2, p.decomp_level), p.lsb)

PacketTotal ==
    3 * stages * ICER_BITPLANES_TO_COMPRESS_16 * NumChannels
      + ICER_BITPLANES_TO_COMPRESS_16 * NumChannels

ComponentBoundary ==
    /\ cv.pc \notin {"decode", "open_channels", "rows"}
    /\ wv.pc \in {"idle", "stage_head", "ret"}
    /\ wv.ret = 0
    /\ \/ pc \in {"start", "wavelet", "ll_alloc", "ll_mean", "ll_sub", "quota",
                  "open_output", "build_packets", "sort", "packets", "emit"}
       \/ Returned /\ result.success

\* C9: at every component boundary of a run that has not failed, every channel
\* plane file that exists has size exactly W * H * 2 bytes.
C9_PlaneFileSize ==
    ComponentBoundary =>
        \A n \in InputFiles \cup TransformedTmpFiles :
            files[n].ex => FileSize(files, n) = width * height * 2

\* after the copy-back of a second stage and after all three swap-backs
C9_Witness ==
    /\ pc = "quota"
    /\ ~channels_pre_transformed
    /\ stages >= 2
    /\ width * height > 1
    /\ \A n \in TransformedTmpFiles : files[n].ex

\* C10: after a stage other than the first completes, every sample of the output
\* plane at a column or row outside the region the stage worked on has the value
\* it had before the stage started.
C10_OutsideRegionUnchanged ==
    (wv.pc = "stage_head" /\ wv.stage >= 2) =>
        /\ Len(files[wv.output].data) = Len(wv.snap)
        /\ \A i \in 1..Len(wv.snap) :
              (((i - 1) % width) >= wv.done_w \/ ((i - 1) \div width) >= wv.done_h)
                  => files[wv.output].data[i] = wv.snap[i]

\* a second stage has completed on a plane with samples outside its region, and
\* it changed a sample inside the region
C10_Witness ==
    /\ wv.pc = "stage_head"
    /\ wv.stage >= 2
    /\ wv.done_w < width
    /\ wv.done_h < height
    /\ \E i \in 1..Len(wv.snap) :
          /\ wv.snap[i] # 0
          /\ (((i - 1) % width) >= wv.done_w \/ ((i - 1) \div width) >= wv.done_h)
    /\ files[wv.output].data # wv.snap

\* C11: streamingWaveletTransform called with stages = 0 returns success and
\* leaves an output plane that exists and holds exactly the samples of the input
\* plane.
C11_ZeroStagesIsIdentity ==
    (wv.pc = "ret" /\ stages = 0 /\ wv.ret = 0) =>
        /\ files[wv.output].ex
        /\ files[wv.output].data = files[wv.input].data

(***************************************************************************)
(* The size arithmetic of streamingWaveletTransform (stage 0 up to the     *)
(* first overflow test), explored on its own in a size_t of SizeBits bits  *)
(* so that the products of small dimensions wrap.                          *)
(***************************************************************************)
SizeBits == 6
MaxOvDim == 34

NarrowSizeMax == icer_pow_uint(2, SizeBits) - 1

\* a size_t result: the mathematical value modulo 2^SizeBits
Wrap(x) == x % (NarrowSizeMax + 1)

Overflows(x) == x > NarrowSizeMax

\* a malloc, seek, read or write issued with a computed size or offset
Issue(op, value) == [op |-> op, wrapped |-> Overflows(value)]

\* the pipeline is not running while a component is explored on its own
PipelineAtRest ==
    /\ args = [width |-> 1, height |-> 1, stages |-> 0, segments |-> 1,
               target_size |-> 0, channels_pre_transformed |-> TRUE,
               pattern |-> "pixels", valid |-> FALSE]
    /\ files = [n \in StorageFiles |-> NoFile]
    /\ outfile = NoOutFile
    /\ handles = {}
    /\ heap = {}
    /\ pc = "not_called"
    /\ wv = WvIdle
    /\ px = PxInit
    /\ packets = <<>>
    /\ rearr = {}
    /\ result = [compressed_size |-> 0, flash_filename |-> "", success |-> FALSE,
                 error_code |-> 0]

\* flash_wavelet.cpp lines 61-74: parameter check, open the input file
O_Entry ==
    /\ ov.pc = "entry"
    /\ \E open_ok \in BOOLEAN :
         ov' = IF ov.width = 0 \/ ov.height = 0
               THEN [ov EXCEPT !.pc = "ret", !.ret = -1]
               ELSE IF ~open_ok THEN [ov EXCEPT !.pc = "ret", !.ret = -2]
               ELSE [ov EXCEPT !.pc = "stage_head"]
    /\ UNCHANGED <<pipelineVars, cv, sd, un>>

\* lines 92-137 (and 779-783 when there is no stage): open the stage files,
\* row_size = current_w * sizeof(uint16_t), malloc(row_size)
O_StageHead ==
    /\ ov.pc = "stage_head"
    /\ \E o \in {"ok", "open_in", "open_temp", "malloc"} :
         LET current_w == ov.width
             row_size == Wrap(current_w * SizeofUint16)
             alloc == Issue("malloc", current_w * SizeofUint16)
         IN
         ov' = IF ov.stages = 0 THEN [ov EXCEPT !.pc = "ret", !.ret = 0]
               ELSE IF o = "open_in" THEN [ov EXCEPT !.pc = "ret", !.ret = -3]
               ELSE IF o = "open_temp" THEN [ov EXCEPT !.pc = "ret", !.ret = -4]
               ELSE IF o = "malloc"
               THEN [ov EXCEPT !.pc = "ret", !.ret = -5, !.issued = @ \cup {alloc}]
               ELSE [ov EXCEPT !.pc = "row", !.row = 0, !.row_size = row_size,
                               !.issued = @ \cup {alloc}]
    /\ UNCHANGED <<pipelineVars, cv, sd, un>>

\* lines 140-190: file_pos = row * width * sizeof(uint16_t), seek, read a row,
\* transform it, write it
O_Row ==
    /\ ov.pc = "row"
    /\ ov.row < ov.height
    /\ \E o \in {"ok", "read", "kernel", "write"} :
         LET file_pos == ov.row * ov.width * SizeofUint16
             seek == Issue("seek", file_pos)
             read == Issue("read", ov.width * SizeofUint16)
             write == Issue("write", ov.width * SizeofUint16)
         IN
         ov' = IF o = "read"
               THEN [ov EXCEPT !.pc = "ret", !.ret = -6, !.issued = @ \cup {seek, read}]
               ELSE IF o = "kernel"
               THEN [ov EXCEPT !.pc = "ret", !.ret = -7, !.issued = @ \cup {seek, read}]
               ELSE IF o = "write"
               THEN [ov EXCEPT !.pc = "ret", !.ret = -8,
                               !.issued = @ \cup {seek, read, write}]
               ELSE [ov EXCEPT !.row = @ + 1, !.issued = @ \cup {seek, read, write}]
    /\ UNCHANGED <<pipelineVars, cv, sd, un>>

\* lines 196-256: close the row scratch, open the column pass files, test
\* width * height * sizeof(uint16_t) for overflow
O_TotalSize ==
    /\ ov.pc = "row"
    /\ ov.row >= ov.height
    /\ \E o \in {"ok", "open_temp", "open_out"} :
         ov' = IF o = "open_temp" THEN [ov EXCEPT !.pc = "ret", !.ret = -10]
               ELSE IF o = "open_out" THEN [ov EXCEPT !.pc = "ret", !.ret = -9]
               ELSE IF \/ ov.width > NarrowSizeMax \div ov.height
                       \/ ov.width * ov.height > NarrowSizeMax \div SizeofUint16
               THEN [ov EXCEPT !.pc = "ret", !.ret = -23]
               ELSE [ov EXCEPT !.pc = "zero_fill"]
    /\ UNCHANGED <<pipelineVars, cv, sd, un>>

InitOverflow ==
    /\ PipelineAtRest
    /\ cv = CvIdle
    /\ sd = SdIdle
    /\ un = UnIdle
    /\ ov \in [pc : {"entry"}, width : 0..MaxOvDim, height : 0..MaxOvDim,
               stages : 0..1, row : {0}, row_size : {0}, ret : {0}, issued : {{}}]

NextOverflow ==
    \/ O_Entry
    \/ O_StageHead
    \/ O_Row
    \/ O_TotalSize

SpecOverflow == InitOverflow /\ [][NextOverflow]_vars

\* C12: the wavelet engine never issues a seek, read, write or allocation whose
\* offset or size is a product that wrapped, and when W * H * 2 overflows it has
\* issued none of them at all: it returns the overflow error first.
C12_OverflowDetectedBeforeUse ==
    /\ \A x \in ov.issued : ~x.wrapped
    /\ Overflows(ov.width * ov.height * SizeofUint16) =>
          /\ ov.issued = {}
          /\ ov.pc = "ret" => ov.ret \in {-1, -2, -3, -4, -23}

\* C13: when streamingWaveletTransform returns a non-zero code e for a channel,
\* the error_code compressYuvWithIcerFlash reports to its caller is exactly e.
C13_ErrorSurfacedUnchanged ==
    (Returned /\ wv.pc = "ret" /\ wv.ret # 0) => result.error_code = wv.ret

\* C14: at every return of streamingWaveletTransform, of
\* convertJpegToSeparateChannels and of compressYuvWithIcerFlash, on success and
\* on every error path, no file handle is open (the partition coder opens none:
\* it works on the handle it is given).
C14_NoHandleLeftOpen ==
    /\ wv.pc = "ret" => handles = {}
    /\ cv.pc = "ret" => handles = {}
    /\ Returned => handles = {}

\* a packet could not be coded while the channel file and the output file were
\* open
C14_Witness ==
    /\ Returned
    /\ result.error_code \in {ICER_BYTE_QUOTA_EXCEEDED, ICER_TOO_MANY_SEGMENTS}
    /\ outfile.ex
    /\ handles = {}

\* C15: at no point are two handles open on the same file name (so no name is
\* open for read and for write at once).
C15_OneHandlePerName ==
    \A a, b \in handles : a.f = b.f => a = b

CodedPlane(c) ==
    IF channels_pre_transformed
    THEN (IF c = ICER_CHANNEL_Y THEN y_flash_file
          ELSE IF c = ICER_CHANNEL_U THEN u_flash_file ELSE v_flash_file)
    ELSE (IF c = ICER_CHANNEL_Y THEN y_transformed_tmp
          ELSE IF c = ICER_CHANNEL_U THEN u_transformed_tmp ELSE v_transformed_tmp)

\* sign bit and magnitude of a 16-bit two's complement sample
SignMagnitudeOf(x) ==
    IF x < 32768 THEN x ELSE IF x = 32768 THEN 32768 ELSE 32768 + (65536 - x)

\* the plane of channel c is the sign-magnitude form of the one content the
\* conversion was applied to
ConvertedOnce(c) ==
    /\ Len(px.pre_convert[c]) = 1
    /\ LET before == px.pre_convert[c][1]
           after == files[CodedPlane(c)].data
       IN /\ Len(after) = Len(before)
          /\ \A i \in 1..Len(before) : after[i] = SignMagnitudeOf(before[i])

\* C17: within one call the sign-magnitude conversion is applied to each of the
\* three channel planes exactly once, never twice to a plane, and all three
\* planes have been converted before the first packet is coded.
C17_SignMagnitudeOnce ==
    /\ \A c \in Channels : Len(px.pre_convert[c]) <= 1
    /\ pc \in {"ll_sub", "sign_mag", "swap_back"} =>
          \A c \in Channels : c < px.chan => ConvertedOnce(c)
    /\ pc \in {"quota", "open_output", "build_packets", "sort", "packets", "emit"} =>
          \A c \in Channels : ConvertedOnce(c)

\* the first packet is about to be coded and every plane held a negative sample
C17_Witness ==
    /\ pc = "packets"
    /\ px.it = 0
    /\ \A c \in Channels :
          /\ ConvertedOnce(c)
          /\ \E i \in 1..Len(px.pre_convert[c][1]) : px.pre_convert[c][1][i] > 32768


(***************************************************************************)
(* Order of the stages                                                     *)
(***************************************************************************)
\* the stages in the order of the listing, the two halves of the in-place
\* conversion of a channel forming one stage
StageRank(e) ==
    CASE e.stage = "wavelet" -> 1
      [] e.stage = "ll_mean" -> 2
      [] e.stage \in {"ll_sub", "sign_mag"} -> 3
      [] e.stage = "code" -> 4
      [] e.stage = "emit" -> 5
      [] e.stage = "verify" -> 6

\* the planes a completed stage has read
PlanesRead(e) ==
    CASE e.stage = "wavelet" -> {InputFile(e.n)}
      [] e.stage \in {"ll_mean", "ll_sub", "sign_mag"} -> {channel_file(e.n)}
      [] e.stage = "code" -> {channel_file(packets[e.n + 1].channel)}
      [] OTHER -> {}

\* the planes a completed stage has written
PlanesWritten(e) ==
    CASE e.stage = "wavelet" -> {TransformedTmp(e.n)}
      [] e.stage \in {"ll_sub", "sign_mag"} -> {channel_file(e.n)}
      [] OTHER -> {}

PerChannel(stage) == [c \in 1..NumChannels |-> Done(stage, ICER_CHANNEL_MIN + c - 1)]

\* the stages of a successful call, with or without the wavelet stage
StagesOfCall(with_wavelet) ==
    (IF with_wavelet THEN PerChannel("wavelet") ELSE <<>>)
    \o PerChannel("ll_mean")
    \o [i \in 1..(2 * NumChannels) |->
           Done(IF i % 2 = 1 THEN "ll_sub" ELSE "sign_mag", ICER_CHANNEL_MIN + (i - 1) \div 2)]
    \o [i \in 1..Len(packets) |-> Done("code", i - 1)]
    \o [i \in 1..Cardinality(rearr) |-> Done("emit", i - 1)]
    \o <<Done("verify", 0)>>

\* nothing reaches the output file before every packet has been coded
NoSegmentBeforeLastPacket ==
    (outfile.segs # <<>> \/ outfile.size > 0 \/ \E i \in 1..Len(px.log) : px.log[i].stage = "emit")
        => /\ packets # <<>>
           /\ \A k \in 1..Len(packets) :
                \E i \in 1..Len(px.log) :
                    /\ px.log[i] = Done("code", k - 1)
                    /\ \A j \in 1..Len(px.log) : px.log[j].stage = "emit" => i < j

\* a plane written by one stage is read by a later stage only afterwards
WritesBeforeReads ==
    \A i, j \in 1..Len(px.log) :
        (/\ StageRank(px.log[j]) > StageRank(px.log[i])
         /\ PlanesWritten(px.log[i]) \cap PlanesRead(px.log[j]) # {}) => i < j

\* C18 as stated: every successful return of the pipeline has gone through
\* the wavelet transform of Y, U, V, the LL means, the mean subtraction and
\* sign-magnitude conversion, the coding of every packet, the emission of all
\* segments and the size verification, in this order, once each; no segment is
\* written before the last packet is coded and writes to a plane precede the
\* reads of later stages
C18_AllStagesInOrder ==
    /\ (Returned /\ result.success) => px.log = StagesOfCall(TRUE)
    /\ NoSegmentBeforeLastPacket
    /\ WritesBeforeReads

\* C18 amended: the same, the wavelet stage being part of the call exactly when
\* the channels are not passed as already transformed
C18_StagesInOrderUnlessPreTransformed ==
    /\ (Returned /\ result.success) => px.log = StagesOfCall(~channels_pre_transformed)
    /\ NoSegmentBeforeLastPacket
    /\ WritesBeforeReads

\* a successful call that transformed the planes, coded several packets and
\* emitted several segments
C18_Witness ==
    /\ Returned /\ result.success
    /\ ~channels_pre_transformed
    /\ Len(packets) >= 2
    /\ Len(outfile.segs) >= 2
    /\ Len(px.log) = 4 * NumChannels + Len(packets) + Len(outfile.segs) + 1


(***************************************************************************)
(* SpresenceSDFile (spresence_sd_filesystem.cpp lines 8-100)               *)
(***************************************************************************)
MaxFileLen == 2

\* line 15: the constructor copies the File and records whether it is valid
SpresenceSDFile(file) ==
    [pc |-> "live", file_handle |-> file, is_open |-> file.valid,
     close_called |-> FALSE,
     last |-> [op |-> "construct", ret |-> 0, after_close |-> FALSE]]

\* the call just made, its return value, and whether close() had been called before it
Call(op, ret) == [op |-> op, ret |-> ret, after_close |-> sd.close_called]

\* lines 84-86
isOpen(w) == w.is_open

\* lines 89-94
operator_bool(w) == w.is_open

\* close() that leaves the wrapper's flag set
close_keeps_flag(w) ==
    IF ~w.is_open THEN w
    ELSE [w EXCEPT !.file_handle.open = FALSE, !.file_handle.closes = @ + 1]

\* lines 74-81: the state close() leaves
close(w) ==
    IF ~w.is_open THEN w
    ELSE [w EXCEPT !.file_handle.open = FALSE, !.file_handle.closes = @ + 1,
                   !.is_open = FALSE]

\* lines 25-30: read up to size bytes; the library returns what it could read
F_Read ==
    /\ sd.pc = "live"
    /\ \E size \in 0..MaxFileLen :
         IF ~sd.is_open
         THEN sd' = [sd EXCEPT !.last = Call("read", 0)]
         ELSE \E n \in {0, Min(size, Max(0, sd.file_handle.size - sd.file_handle.pos))} :
                sd' = [sd EXCEPT !.file_handle.pos = @ + n, !.last = Call("read", n)]
    /\ UNCHANGED <<pipelineVars, ov, cv, un>>

\* lines 33-38: write size bytes; the library returns what it could write
F_Write ==
    /\ sd.pc = "live"
    /\ \E size \in 0..MaxFileLen :
         IF ~sd.is_open
         THEN sd' = [sd EXCEPT !.last = Call("write", 0)]
         ELSE \E n \in {0, Min(size, Max(0, MaxFileLen - sd.file_handle.pos))} :
                sd' = [sd EXCEPT !.file_handle.pos = @ + n,
                                 !.file_handle.size = Max(@, sd.file_handle.pos + n),
                                 !.last = Call("write", n)]
    /\ UNCHANGED <<pipelineVars, ov, cv, un>>

\* lines 41-46: the library refuses a position past the end of the file
F_Seek ==
    /\ sd.pc = "live"
    /\ \E position \in 0..(MaxFileLen + 1) :
         IF ~sd.is_open
         THEN sd' = [sd EXCEPT !.last = Call("seek", FALSE)]
         ELSE IF position > sd.file_handle.size
         THEN sd' = [sd EXCEPT !.last = Call("seek", FALSE)]
         ELSE sd' = [sd EXCEPT !.file_handle.pos = position, !.last = Call("seek", TRUE)]
    /\ UNCHANGED <<pipelineVars, ov, cv, un>>

\* lines 49-54
F_Position ==
    /\ sd.pc = "live"
    /\ sd' = [sd EXCEPT !.last = Call("position",
                                      IF ~sd.is_open THEN 0 ELSE sd.file_handle.pos)]
    /\ UNCHANGED <<pipelineVars, ov, cv, un>>

\* lines 57-62
F_Size ==
    /\ sd.pc = "live"
    /\ sd' = [sd EXCEPT !.last = Call("size",
                                      IF ~sd.is_open THEN 0 ELSE sd.file_handle.size)]
    /\ UNCHANGED <<pipelineVars, ov, cv, un>>

\* lines 65-71
F_Flush ==
    /\ sd.pc = "live"
    /\ sd' = [sd EXCEPT !.last = Call("flush", sd.is_open)]
    /\ UNCHANGED <<pipelineVars, ov, cv, un>>

\* lines 74-81: close() returns true whether or not the file was open
F_Close ==
    /\ sd.pc = "live"
    /\ sd' = [close(sd) EXCEPT !.close_called = TRUE, !.last = Call("close", TRUE)]
    /\ UNCHANGED <<pipelineVars, ov, cv, un>>

\* lines 84-94: the two queries
F_IsOpen ==
    /\ sd.pc = "live"
    /\ \E q \in {"isOpen", "operator bool"} :
         sd' = [sd EXCEPT !.last = Call(q, IF q = "isOpen" THEN isOpen(sd)
                                           ELSE operator_bool(sd))]
    /\ UNCHANGED <<pipelineVars, ov, cv, un>>

\* lines 18-22: the destructor closes the file if it is still open
F_Destroy ==
    /\ sd.pc = "live"
    /\ sd' = [close(sd) EXCEPT !.pc = "destroyed", !.last = Call("destroy", 0)]
    /\ UNCHANGED <<pipelineVars, ov, cv, un>>

\* a wrapper constructed from a valid or an invalid File
InitFile ==
    /\ PipelineAtRest
    /\ ov = OvIdle
    /\ cv = CvIdle
    /\ un = UnIdle
    /\ \E valid \in BOOLEAN, size \in 0..MaxFileLen :
         sd = SpresenceSDFile(File(valid, IF valid THEN size ELSE 0))

NextFile ==
    \/ F_Read
    \/ F_Write
    \/ F_Seek
    \/ F_Position
    \/ F_Size
    \/ F_Flush
    \/ F_Close
    \/ F_IsOpen
    \/ F_Destroy

SpecFile == InitFile /\ [][NextFile]_vars

\* C19: isOpen() equals operator bool() and is true exactly when the wrapper
\* was constructed from a valid handle and close() has not been called; after
\* close(), read, write, position and size return 0, seek and flush return
\* false, close() returns true, and the underlying handle is never closed twice
C19_WrapperOpenState ==
    /\ sd.pc = "live" =>
         /\ isOpen(sd) = operator_bool(sd)
         /\ isOpen(sd) <=> (sd.file_handle.valid /\ ~sd.close_called)
         /\ sd.last.op = "isOpen" => sd.last.ret = (sd.file_handle.valid /\ ~sd.close_called)
         /\ sd.last.op = "operator bool" =>
                sd.last.ret = (sd.file_handle.valid /\ ~sd.close_called)
         /\ sd.last.after_close =>
              /\ sd.last.op \in {"read", "write", "position", "size"} => sd.last.ret = 0
              /\ sd.last.op \in {"seek", "flush"} => sd.last.ret = FALSE
              /\ sd.last.op = "close" => sd.last.ret = TRUE
    /\ sd.file_handle.closes <= 1
    /\ sd.close_called => ~sd.file_handle.open

\* a second close() of a wrapper built from a valid file that had been written
C19_Witness ==
    /\ sd.pc = "live"
    /\ sd.file_handle.valid
    /\ sd.file_handle.size > 0
    /\ sd.last.op = "close"
    /\ sd.last.after_close
    /\ sd.last.ret = TRUE
    /\ sd.file_handle.closes = 1
    /\ ~isOpen(sd)


(***************************************************************************)
(* The quota arithmetic on its own (flash_icer_compression.cpp 601-714)    *)
(***************************************************************************)
\* target sizes around the margin and the cap, image sizes whose lossless
\* quota 6 * W * H lies below, around and above the cap
QuotaTargets ==
    {0, 1, DatastreamMargin,
     MAX_DATASTREAM_BUFFER_SIZE - DatastreamMargin - 1,
     MAX_DATASTREAM_BUFFER_SIZE - DatastreamMargin,
     MAX_DATASTREAM_BUFFER_SIZE - 1, MAX_DATASTREAM_BUFFER_SIZE,
     MAX_DATASTREAM_BUFFER_SIZE + 1, 2 * MAX_DATASTREAM_BUFFER_SIZE}
QuotaWidths == {1, 320, 68181, 68182, 68267, 1280, 20000}
QuotaHeights == {1, 240, 720, 20000}

\* the pipeline at line 601, the planes left out: only the arithmetic runs
InitQuota ==
    /\ args \in [width : QuotaWidths, height : QuotaHeights, stages : {1}, segments : {1},
                 target_size : QuotaTargets, channels_pre_transformed : {TRUE},
                 pattern : {"pixels"}, valid : {TRUE}]
    /\ files = [n \in StorageFiles |-> NoFile]
    /\ outfile = NoOutFile
    /\ handles = {}
    /\ heap = IcerBuffers
    /\ pc = "quota"
    /\ wv = WvIdle
    /\ px = PxInit
    /\ packets = <<>>
    /\ rearr = {}
    /\ result = [compressed_size |-> 0, flash_filename |-> "", success |-> FALSE,
                 error_code |-> 0]
    /\ ov = OvIdle
    /\ cv = CvIdle
    /\ sd = SdIdle
    /\ un = UnIdle

NextQuota ==
    \/ P_Quota
    \/ P_OpenOutput

SpecQuota == InitQuota /\ [][NextQuota]_vars

\* the quota of the claim: the target size, or 6 * W * H for a target of 0
ClaimedQuota == IF target_size = 0 THEN 6 * width * height ELSE target_size

\* C20: the effective quota is min(byte_quota, cap) with cap = 400 KiB, it
\* never exceeds the size of the datastream buffer, the buffer never exceeds
\* cap, and this quota is what the coder is given to fill
C20_EffectiveQuota ==
    /\ pc \in {"open_output", "build_packets"} =>
         /\ px.effective_byte_quota = Min(ClaimedQuota, 400 * 1024)
         /\ px.effective_byte_quota <= px.buffer_size
         /\ px.buffer_size <= 400 * 1024
         /\ "datastream" \in heap
    /\ pc = "build_packets" => px.size_allocated = Min(ClaimedQuota, 400 * 1024)
    /\ Returned => result.error_code # ICER_OUTPUT_BUF_TOO_SMALL

\* a lossless call on a 1280 x 720 image: the quota of 5529600 bytes is cut to the cap
C20_Witness ==
    /\ pc = "build_packets"
    /\ target_size = 0 /\ width = 1280 /\ height = 720
    /\ px.byte_quota = 5529600
    /\ px.size_allocated = 409600
    /\ px.buffer_size = 409600


(***************************************************************************)
(* rgb_to_yuv (camera_yuv.cpp lines 279-294) on its own                    *)
(***************************************************************************)
\* the pipeline and the other components are not running
OthersAtRest ==
    /\ PipelineAtRest
    /\ ov = OvIdle
    /\ cv = CvIdle
    /\ sd = SdIdle

\* the values of a uint8_t, and the levels two of the three components are drawn from
Bytes == 0..255
RgbLevels == {0, 1, 128, 254, 255}

\* division rounding towards minus infinity
FloorDiv(a, b) == a \div b

\* the / of two int32_t with a positive divisor: the quotient is rounded towards zero
TruncDiv(a, b) == IF a >= 0 THEN a \div b ELSE -((-a) \div b)

\* the conditional expressions of lines 283, 288 and 293
Clamp255(x) == IF x < 0 THEN 0 ELSE IF x > 255 THEN 255 ELSE x

rgb_to_yuv(r, g, b) ==
    LET y_val == TruncDiv(299000 * r + 587000 * g + 114000 * b, 1000000)
        u_val == TruncDiv(-168736 * r - 331264 * g + 500000 * b, 1000000) + 128
        v_val == TruncDiv(500000 * r - 418688 * g - 81312 * b, 1000000) + 128
    IN [y |-> Clamp255(y_val), u |-> Clamp255(u_val), v |-> Clamp255(v_val)]

\* lines 641-647: one pixel of the scanline is converted and stored in the
\* three channel scanlines
Y_Pixel ==
    /\ un.pc = "rgb"
    /\ LET yuv == rgb_to_yuv(un.r, un.g, un.b)
       IN un' = [pc |-> "yuv", r |-> un.r, g |-> un.g, b |-> un.b,
                 y_scanline |-> yuv.y, u_scanline |-> yuv.u, v_scanline |-> yuv.v]
    /\ UNCHANGED <<pipelineVars, ov, cv, sd>>

InitYuv ==
    /\ OthersAtRest
    /\ un \in [pc : {"rgb"}, r : Bytes, g : Bytes, b : Bytes]
    /\ \/ un.r \in RgbLevels /\ un.g \in RgbLevels
       \/ un.r \in RgbLevels /\ un.b \in RgbLevels
       \/ un.g \in RgbLevels /\ un.b \in RgbLevels

NextYuv == Y_Pixel

SpecYuv == InitYuv /\ [][NextYuv]_vars

\* q is the quotient a / b rounded towards zero
IsTruncatedQuotient(q, a, b) ==
    /\ a >= 0 => (q >= 0 /\ q * b <= a /\ a < (q + 1) * b)
    /\ a < 0 => (q <= 0 /\ q * b >= a /\ a > (q - 1) * b)

\* the component the formula gives: numerator over 10^6, truncated, plus the
\* offset, clamped to [0, 255]
FormulaComponent(numerator, offset) ==
    LET q == CHOOSE q \in -128..255 : IsTruncatedQuotient(q, numerator, 1000000)
    IN Max(0, Min(255, q + offset))

\* C21: for every R, G, B in 0..255 the samples Y, U, V stored by the splitter
\* are in [0, 255] and equal the integer formulas: coefficients scaled by 10^6,
\* truncating division, +128 for U and V, clamped to [0, 255]
C21_RgbToYuv ==
    un.pc = "yuv" =>
        /\ un.y_scanline \in 0..255 /\ un.u_scanline \in 0..255 /\ un.v_scanline \in 0..255
        /\ un.y_scanline = FormulaComponent(299000 * un.r + 587000 * un.g + 114000 * un.b, 0)
        /\ un.u_scanline =
               FormulaComponent(-168736 * un.r - 331264 * un.g + 500000 * un.b, 128)
        /\ un.v_scanline =
               FormulaComponent(500000 * un.r - 418688 * un.g - 81312 * un.b, 128)

\* a pixel whose U numerator is negative and not a multiple of 10^6
C21_Witness ==
    /\ un.pc = "yuv"
    /\ un.r = 1 /\ un.g = 0 /\ un.b = 0
    /\ un.y_scanline = 0 /\ un.u_scanline = 128 /\ un.v_scanline = 128


(***************************************************************************)
(* Order of processing                                                     *)
(***************************************************************************)
\* place of a packet in the list as constructed, before the sort
InsertionIndex(p) ==
    LET built == BuildPackets(stages, px.ll_mean).pk
    IN CHOOSE k \in 1..Len(built) : built[k] = p

\* C22: packets that are equal under the comparator (same priority and same
\* subband_type) are processed in their insertion order
C22_TiesInInsertionOrder ==
    pc \in {"packets", "emit"} =>
        \A i, j \in 1..Len(packets) :
            (i < j /\ comp_packet(packets[i], packets[j]) = 0)
                => InsertionIndex(packets[i]) < InsertionIndex(packets[j])


(***************************************************************************)
(* Storage failures                                                        *)
(***************************************************************************)
\* C23: in the wavelet engine every short write on storage makes the engine
\* return a non-zero error code: no failed storage operation is ignored and
\* followed by further processing
C23_StorageFailureReturnsError ==
    (wv.pc = "ret" /\ wv.short_writes > 0) => wv.ret # 0


\* C24: a file that one step writes and a later step reads again, here the
\* row-transformed scratch of the wavelet engine, is flushed after its last
\* write and before its handle is closed
C24_FlushedBeforeClose ==
    wv.closed_unflushed = {}


(***************************************************************************)
(* jpeg_output_func (camera_yuv.cpp lines 46-135) on its own               *)
(***************************************************************************)
MaxJpegDim == 3

\* the test of lines 63-68 accepting a rectangle whose right edge is the image width
RectangleValidUpToWidth(rect, w, h) ==
    LET rect_width == rect.right - rect.left + 1
        rect_height == rect.bottom - rect.top + 1
    IN ~(\/ rect_width <= 0 \/ rect_height <= 0
         \/ rect.left < 0 \/ rect.top < 0
         \/ rect.right > w
         \/ rect.bottom >= h
         \/ rect.left > rect.right \/ rect.top > rect.bottom)

\* lines 58-68: the rectangle passes the bounds test
RectangleValid(rect, w, h) ==
    LET rect_width == rect.right - rect.left + 1
        rect_height == rect.bottom - rect.top + 1
    IN ~(\/ rect_width <= 0 \/ rect_height <= 0
         \/ rect.left < 0 \/ rect.top < 0
         \/ rect.right >= w
         \/ rect.bottom >= h
         \/ rect.left > rect.right \/ rect.top > rect.bottom)

\* lines 74-99: the write issued for row y of the rectangle, written bytes long
RowWrite(rect, y, row_size_bytes, written) ==
    [file_offset |-> (rect.top + y) * row_size_bytes + rect.left * 3, bytes |-> written]

\* lines 46-135: one call of the callback; the seek or the write of one row may fail
J_Output ==
    /\ un.pc = "call"
    /\ LET rect == un.rect
           rect_height == rect.bottom - rect.top + 1
           rect_row_bytes == (rect.right - rect.left + 1) * 3
           row_size_bytes == un.width * 3
       IN
       \E o \in {"ok", "closed", "seek", "write"} :
         IF o = "closed" \/ ~RectangleValid(rect, un.width, un.height)
         THEN un' = [un EXCEPT !.pc = "ret", !.ret = 0]
         ELSE \E fail_row \in 0..(rect_height - 1), short \in 0..(rect_row_bytes - 1) :
                LET rows == IF o = "ok" THEN rect_height ELSE fail_row
                    full == {RowWrite(rect, y, row_size_bytes, rect_row_bytes) :
                                y \in 0..(rows - 1)}
                    partial == IF o = "write" /\ short > 0
                               THEN {RowWrite(rect, fail_row, row_size_bytes, short)}
                               ELSE {}
                IN un' = [un EXCEPT !.pc = "ret", !.ret = IF o = "ok" THEN 1 ELSE 0,
                                    !.writes = full \cup partial]
    /\ UNCHANGED <<pipelineVars, ov, cv, sd>>

\* the callback called with any rectangle on an image of any size
InitJpegOut ==
    /\ OthersAtRest
    /\ un \in [pc : {"call"}, width : 1..MaxJpegDim, height : 1..MaxJpegDim,
               rect : [left : 0..MaxJpegDim, right : 0..MaxJpegDim,
                       top : 0..MaxJpegDim, bottom : 0..MaxJpegDim],
               ret : {0}, writes : {{}}]

NextJpegOut == J_Output

SpecJpegOut == InitJpegOut /\ [][NextJpegOut]_vars

\* the rectangle [l, r] x [t, b] lies inside the W x H image
InsideImage(rect, w, h) ==
    /\ 0 <= rect.left /\ rect.left <= rect.right /\ rect.right < w
    /\ 0 <= rect.top /\ rect.top <= rect.bottom /\ rect.bottom < h

\* C25: a rectangle inside the image has each row y in [t, b] written at
\* offset (y * W + l) * 3 with (r - l + 1) * 3 bytes, every written byte lying
\* in [0, W * H * 3); any other rectangle makes the callback return 0 without
\* writing a byte
C25_OutputWrites ==
    un.pc = "ret" =>
        IF InsideImage(un.rect, un.width, un.height)
        THEN /\ \A w \in un.writes :
                  /\ \E y \in un.rect.top..un.rect.bottom :
                        w.file_offset = (y * un.width + un.rect.left) * 3
                  /\ w.bytes <= (un.rect.right - un.rect.left + 1) * 3
                  /\ 0 <= w.file_offset
                  /\ w.file_offset + w.bytes <= un.width * un.height * 3
             /\ un.ret = 1 =>
                  \A y \in un.rect.top..un.rect.bottom :
                      [file_offset |-> (y * un.width + un.rect.left) * 3,
                       bytes |-> (un.rect.right - un.rect.left + 1) * 3] \in un.writes
        ELSE un.writes = {} /\ un.ret = 0

\* a two-row rectangle ending at the last pixel of the image, written completely
C25_Witness ==
    /\ un.pc = "ret" /\ un.ret = 1
    /\ un.width = 3 /\ un.height = 2
    /\ un.rect = [left |-> 1, right |-> 2, top |-> 0, bottom |-> 1]
    /\ un.writes = {[file_offset |-> 3, bytes |-> 6], [file_offset |-> 12, bytes |-> 6]}


(***************************************************************************)
(* The segment reads of icer_compress_partition_uint16_flash               *)
(* (flash_partition.cpp lines 37-145 and 186-253) on their own             *)
(***************************************************************************)
MaxSubband == 3
MaxPartitionRows == 2
MaxPartitionCols == 2

\* the largest segment height of the top band alone
max_segment_h_of_top_band(p) == p.y_t + 1

\* lines 38-45: the largest segment width and height
max_segment_w(p) == IF p.x_b > 0 /\ p.x_b + 1 > p.x_t + 1 THEN p.x_b + 1 ELSE p.x_t + 1

max_segment_h(p) == IF p.y_b > 0 /\ p.y_b + 1 > p.y_t + 1 THEN p.y_b + 1 ELSE p.y_t + 1

\* lines 52-53
padded_w(p) == max_segment_w(p) + 2

padded_h(p) == max_segment_h(p) + 2

\* the width rule with the first c_t0 + 1 (c_b0 + 1) columns narrow
segment_w_one_more_narrow(p, band, col) ==
    IF band = "top" THEN p.x_t + (IF col > p.c_t0 THEN 1 ELSE 0)
    ELSE p.x_b + (IF col > p.c_b0 THEN 1 ELSE 0)

\* lines 80 and 203
segment_w(p, band, col) ==
    IF band = "top" THEN p.x_t + (IF col >= p.c_t0 THEN 1 ELSE 0)
    ELSE p.x_b + (IF col >= p.c_b0 THEN 1 ELSE 0)

\* lines 72 and 196
segment_h(p, band, row) ==
    IF band = "top" THEN p.y_t + (IF row >= p.r_t0 THEN 1 ELSE 0)
    ELSE p.y_b + (IF row >= p.r_b0 THEN 1 ELSE 0)

\* the sample of the subband at column x, row y, as stored in the plane file
FlashSample(x, y) == 1 + x + 10 * y

\* the element of the buffer at index i; an index past the end has no element
Load(buffer, i) == IF i < Len(buffer) THEN buffer[i + 1] ELSE 0

Store(buffer, i, v) == IF i < Len(buffer) THEN [buffer EXCEPT ![i + 1] = v] ELSE buffer

\* lines 92-122 without the replication of the last sample to the right
RowIntoBufferNoRightPadding(p, buffer, x0, y0, w_s, seg_row) ==
    LET buffer_offset == (seg_row + 1) * padded_w(p) + 1
        read == [i \in 1..Len(buffer) |->
                    IF i - 1 >= buffer_offset /\ i - 1 < buffer_offset + w_s
                    THEN FlashSample(x0 + (i - 1 - buffer_offset), y0 + seg_row)
                    ELSE buffer[i]]
    IN Store(read, buffer_offset - 1, Load(read, buffer_offset))

\* lines 92-122: one row of the segment read at buffer_offset, its first sample
\* copied to the left and its last sample to the right
RowIntoBuffer(p, buffer, x0, y0, w_s, seg_row) ==
    LET buffer_offset == (seg_row + 1) * padded_w(p) + 1
        read == [i \in 1..Len(buffer) |->
                    IF i - 1 >= buffer_offset /\ i - 1 < buffer_offset + w_s
                    THEN FlashSample(x0 + (i - 1 - buffer_offset), y0 + seg_row)
                    ELSE buffer[i]]
        left == Store(read, buffer_offset - 1, Load(read, buffer_offset))
    IN IF buffer_offset + w_s < padded_w(p) * padded_h(p)
       THEN Store(left, buffer_offset + w_s, Load(left, buffer_offset + w_s - 1))
       ELSE left

\* lines 92-122: the loop over the rows of the segment
RECURSIVE RowsIntoBuffer(_, _, _, _, _, _, _)
RowsIntoBuffer(p, buffer, x0, y0, w_s, h_s, seg_row) ==
    IF seg_row >= h_s THEN buffer
    ELSE RowsIntoBuffer(p, RowIntoBuffer(p, buffer, x0, y0, w_s, seg_row),
                        x0, y0, w_s, h_s, seg_row + 1)

\* lines 126-139: row 1 copied to row 0, then row h_s to row h_s + 1
PadTopAndBottom(p, buffer, h_s) ==
    IF h_s = 0 THEN buffer
    ELSE
    LET top == [i \in 1..Len(buffer) |->
                   IF i - 1 < padded_w(p) THEN Load(buffer, padded_w(p) + i - 1)
                   ELSE buffer[i]]
    IN [i \in 1..Len(top) |->
           IF i - 1 >= (h_s + 1) * padded_w(p) /\ i - 1 < (h_s + 2) * padded_w(p)
           THEN Load(top, h_s * padded_w(p) + (i - 1 - (h_s + 1) * padded_w(p)))
           ELSE top[i]]

\* the indices of the buffer that the read of a w_s x h_s segment reads or writes
IndicesUsed(p, w_s, h_s) ==
    UNION {LET buffer_offset == (seg_row + 1) * padded_w(p) + 1
           IN (buffer_offset - 1)..(buffer_offset + w_s - 1)
              \cup {buffer_offset}
              \cup (IF buffer_offset + w_s < padded_w(p) * padded_h(p)
                    THEN {buffer_offset + w_s, buffer_offset + w_s - 1} ELSE {}) :
           seg_row \in 0..(h_s - 1)}
    \cup (IF h_s > 0
          THEN 0..(2 * padded_w(p) - 1)
               \cup (h_s * padded_w(p))..((h_s + 2) * padded_w(p) - 1)
          ELSE {})

\* lines 68-145 and 186-253: the segment at the loop position is read into the
\* padded buffer; the loop position and the origin of the next segment advance
K_Segment ==
    /\ un.pc = "segments"
    /\ LET p == un.params
           w_s == segment_w(p, un.band, un.col)
           h_s == segment_h(p, un.band, un.row)
           x0 == un.partition_col_ind
           y0 == un.partition_row_ind
           rows == IF un.band = "top" THEN p.r_t ELSE p.r - p.r_t
           cols == IF un.band = "top" THEN p.c ELSE p.c + 1
           read == PadTopAndBottom(p, RowsIntoBuffer(p, un.segment_buffer, x0, y0,
                                                     w_s, h_s, 0), h_s)
           end_of_row == un.col + 1 >= cols
           end_of_band == end_of_row /\ un.row + 1 >= rows
       IN
       \E o \in {"ok", "read"} :
         IF o = "read" /\ w_s > 0 /\ h_s > 0
         THEN un' = [un EXCEPT !.pc = "ret", !.ret = ICER_FATAL_ERROR]
         ELSE un' = [un EXCEPT
                !.segment_buffer = read,
                !.rects = Append(@, [x |-> x0, y |-> y0, w |-> w_s, h |-> h_s,
                                     band |-> un.band, row |-> un.row, col |-> un.col]),
                !.used = IndicesUsed(p, w_s, h_s),
                !.partition_col_ind = IF end_of_row THEN 0 ELSE @ + w_s,
                !.partition_row_ind = IF end_of_row THEN @ + h_s ELSE @,
                !.col = IF end_of_row THEN 0 ELSE @ + 1,
                !.row = IF end_of_band THEN 0 ELSE IF end_of_row THEN @ + 1 ELSE @,
                !.band = IF end_of_band THEN "bottom" ELSE @,
                !.pc = IF end_of_band /\ (un.band = "bottom" \/ p.r - p.r_t = 0)
                       THEN "ret" ELSE @,
                !.ret = ICER_RESULT_OK]
    /\ UNCHANGED <<pipelineVars, ov, cv, sd>>

\* lines 28-68 and 191-193: the buffer is allocated and zeroed, and the loops are
\* entered at the first segment; a top band without columns only advances
\* partition_row_ind by the heights of its rows
EnterPartition(p, w, h) ==
    LET top_empty == p.r_t = 0 \/ p.c = 0
        top_height == p.r_t0 * p.y_t + (p.r_t - p.r_t0) * (p.y_t + 1)
    IN [pc |-> IF top_empty /\ p.r - p.r_t = 0 THEN "ret" ELSE "segments",
        params |-> p, w |-> w, h |-> h,
        band |-> IF top_empty THEN "bottom" ELSE "top", row |-> 0, col |-> 0,
        partition_row_ind |-> IF top_empty THEN top_height ELSE 0,
        partition_col_ind |-> 0,
        segment_buffer |-> Zeros(padded_w(p) * padded_h(p)),
        rects |-> <<>>, used |-> {}, ret |-> ICER_RESULT_OK]

\* the widths of the columns of a band add up to w
ColumnsTile(p, band, w) ==
    IF band = "top"
    THEN p.c_t0 * p.x_t + (p.c - p.c_t0) * (p.x_t + 1) = w
    ELSE p.c_b0 * p.x_b + (p.c + 1 - p.c_b0) * (p.x_b + 1) = w

\* the heights of the rows of the two bands add up to h
RowsTile(p, h) ==
    p.r_t0 * p.y_t + (p.r_t - p.r_t0) * (p.y_t + 1)
        + p.r_b0 * p.y_b + (p.r - p.r_t - p.r_b0) * (p.y_b + 1) = h

\* partition parameters that satisfy the tiling identities for a w x h subband
TilingIdentities(p, w, h) ==
    /\ p.r_t <= p.r /\ p.r_t0 <= p.r_t /\ p.r_b0 <= p.r - p.r_t
    /\ p.c_t0 <= p.c /\ p.c_b0 <= p.c + 1
    /\ RowsTile(p, h)
    /\ p.r_t > 0 => ColumnsTile(p, "top", w)
    /\ p.r - p.r_t > 0 => ColumnsTile(p, "bottom", w)

InitPartition ==
    /\ OthersAtRest
    /\ \E w \in 1..MaxSubband, h \in 1..MaxSubband :
       \E p \in [r : 1..MaxPartitionRows, r_t : 0..MaxPartitionRows,
                 r_t0 : 0..MaxPartitionRows, r_b0 : 0..MaxPartitionRows,
                 c : 0..MaxPartitionCols, c_t0 : 0..MaxPartitionCols,
                 c_b0 : 0..(MaxPartitionCols + 1),
                 x_t : 0..MaxSubband, y_t : 0..MaxSubband,
                 x_b : 0..MaxSubband, y_b : 0..MaxSubband] :
         /\ TilingIdentities(p, w, h)
         /\ un = EnterPartition(p, w, h)

MaxSegment == 2

\* every parameter record over the bounds, tiling or not
InitPartitionAny ==
    /\ OthersAtRest
    /\ \E p \in [r : 1..MaxPartitionRows, r_t : 0..MaxPartitionRows,
                 r_t0 : 0..MaxPartitionRows, r_b0 : 0..MaxPartitionRows,
                 c : 0..MaxPartitionCols, c_t0 : 0..MaxPartitionCols,
                 c_b0 : 0..(MaxPartitionCols + 1),
                 x_t : 0..MaxSegment, y_t : 0..MaxSegment,
                 x_b : 0..MaxSegment, y_b : 0..MaxSegment] :
         /\ p.r_t <= p.r /\ p.r_t0 <= p.r_t /\ p.r_b0 <= p.r - p.r_t
         /\ p.c_t0 <= p.c /\ p.c_b0 <= p.c + 1
         /\ un = EnterPartition(p, 0, 0)

NextPartition == K_Segment

SpecPartition == InitPartition /\ [][NextPartition]_vars

SpecPartitionAny == InitPartitionAny /\ [][NextPartition]_vars


\* the cells of the subband that a segment rectangle covers
CellsOf(rect) == (rect.x..(rect.x + rect.w - 1)) \X (rect.y..(rect.y + rect.h - 1))

\* the origin that the claim gives the k-th segment read: the widths of the
\* earlier segments of its row, and the heights of the earlier rows
ClaimedOrigin(k) ==
    LET p == un.params
        s == un.rects[k]
        RECURSIVE ColsBefore(_)
        ColsBefore(col) == IF col = 0 THEN 0
                           ELSE segment_w(p, s.band, col - 1) + ColsBefore(col - 1)
        RECURSIVE RowsAbove(_, _)
        RowsAbove(band, row) ==
            IF row = 0 THEN (IF band = "top" THEN 0 ELSE RowsAbove("top", p.r_t))
            ELSE segment_h(p, band, row - 1) + RowsAbove(band, row - 1)
    IN [x |-> ColsBefore(s.col), y |-> RowsAbove(s.band, s.row)]

\* C26: for partition parameters that satisfy the tiling identities, the segment
\* rectangles read are pairwise disjoint and lie inside the subband, each
\* x-origin is the sum of the widths of the earlier segments of its row and each
\* y-origin a sum of the heights of the earlier rows, and once every segment has
\* been read the rectangles cover the subband exactly
C26_SegmentsTile ==
    un.pc \in {"segments", "ret"} =>
        /\ \A k \in 1..Len(un.rects) :
             /\ CellsOf(un.rects[k]) \subseteq (0..(un.w - 1)) \X (0..(un.h - 1))
             /\ un.rects[k].x = ClaimedOrigin(k).x
             /\ un.rects[k].y = ClaimedOrigin(k).y
             /\ \A j \in 1..(k - 1) : CellsOf(un.rects[j]) \cap CellsOf(un.rects[k]) = {}
        /\ (un.pc = "ret" /\ un.ret = ICER_RESULT_OK) =>
             UNION {CellsOf(un.rects[k]) : k \in 1..Len(un.rects)}
                 = (0..(un.w - 1)) \X (0..(un.h - 1))

C26_Witness ==
    /\ un.pc = "ret" /\ un.ret = ICER_RESULT_OK
    /\ un.params.r_t = 1 /\ un.params.r = 2 /\ un.params.c = 1
    /\ un.params.c_b0 = 1 /\ un.w = 3 /\ un.h = 3
    /\ Len(un.rects) = 3
    /\ un.rects[3].x = 1 /\ un.rects[3].y = 1 /\ un.rects[3].w = 2 /\ un.rects[3].h = 2


\* the cell of the padded buffer at row row and column col
Cell(row, col) == Load(un.segment_buffer, row * padded_w(un.params) + col)

\* the segment most recently read into the buffer
LastRead == un.rects[Len(un.rects)]

\* C27: after the padded read of a w_s x h_s segment (both at least 1), whatever
\* earlier segments left in the buffer, each interior row has its first sample in
\* the left padding cell and its last sample in the right padding cell (column
\* w_s + 1), and padding rows 0 and h_s + 1 repeat rows 1 and h_s over columns
\* 0..w_s + 1
C27_PaddingReplicatesEdges ==
    (un.pc \in {"segments", "ret"} /\ Len(un.rects) > 0
        /\ LastRead.w >= 1 /\ LastRead.h >= 1) =>
        LET w_s == LastRead.w
            h_s == LastRead.h
        IN /\ \A y \in 1..h_s :
                /\ \A x \in 1..w_s :
                     Cell(y, x) = FlashSample(LastRead.x + x - 1, LastRead.y + y - 1)
                /\ Cell(y, 0) = Cell(y, 1)
                /\ Cell(y, w_s + 1) = Cell(y, w_s)
           /\ \A x \in 0..(w_s + 1) :
                /\ Cell(0, x) = Cell(1, x)
                /\ Cell(h_s + 1, x) = Cell(h_s, x)

C27_Witness ==
    /\ un.pc = "segments" /\ Len(un.rects) = 2
    /\ un.rects[1].w = 2 /\ un.rects[1].h = 1
    /\ LastRead.w = 1 /\ LastRead.h = 1 /\ LastRead.y = 1
    /\ Cell(1, 2) = FlashSample(0, 1)
    /\ Cell(2, 2) = FlashSample(0, 1)


\* C28: for every partition parameter set and every segment of both bands, every
\* index of the padded segment buffer that the read of the segment reads or
\* writes is less than (w_max + 2) * (h_max + 2), the number of samples allocated
\* at the start of the partition
C28_BufferIndicesInBounds ==
    un.pc \in {"segments", "ret"} =>
        LET p == un.params
            w_max == IF p.x_b > 0 /\ p.x_b > p.x_t THEN p.x_b + 1 ELSE p.x_t + 1
            h_max == IF p.y_b > 0 /\ p.y_b > p.y_t THEN p.y_b + 1 ELSE p.y_t + 1
        IN \A i \in un.used :
               i >= 0 /\ i < (w_max + 2) * (h_max + 2) /\ i < Len(un.segment_buffer)

C28_Witness ==
    /\ un.pc = "ret" /\ Len(un.rects) > 0
    /\ un.params.y_t = 0 /\ un.params.y_b = 2 /\ un.params.x_b = 2
    /\ LastRead.band = "bottom" /\ LastRead.w = 3 /\ LastRead.h = 3
    /\ Len(un.segment_buffer) - 1 \in un.used


\* the entries that one call of icer_compress_partition_uint16_flash registered
SealedByCall == rearr' \ rearr

\* the return codes of the bit-plane coder that the model produces
CoderFailures == {ICER_BYTE_QUOTA_EXCEEDED, ICER_BITPLANE_OUT_OF_RANGE}

\* C29: when the bit-plane coder returns non-OK for a segment, the partition
\* coder returns that code with size_used at its value just before the record of
\* that segment was allocated (the value at the call plus the bytes of the
\* segments sealed by the call), the failed segment has no entry in the segment
\* index, and the entries of all earlier sealed segments are unchanged
C29_CoderFailureRewinds ==
    [][(pc = "packets" /\ pc' = "returned" /\ result'.error_code \in CoderFailures) =>
          LET p == packets[px.it + 1]
              sealed == Cardinality(SealedByCall)
          IN /\ rearr \subseteq rearr'
             /\ sealed < segments
             /\ SealedByCall = {e \in rearr' : /\ e.chan = p.channel
                                                /\ e.stage = p.decomp_level
                                                /\ e.subband = p.subband_type
                                                /\ e.lsb = p.lsb}
             /\ {e.seg : e \in SealedByCall} = 0..(sealed - 1)
             /\ px'.size_used = px.size_used + SumOfSegmentSizes(SealedByCall)]_vars

C29_Witness ==
    /\ pc = "returned"
    /\ result.error_code = ICER_BITPLANE_OUT_OF_RANGE
    /\ px.it = 1
    /\ Cardinality(rearr) = 3
    /\ px.size_allocated - px.size_used >= SizeofSegmentHeader
    /\ \E e \in rearr : e.data_length % 8 # 0


\* C30: every sealed segment is accounted in the datastream with its header and
\* ceil(data_length / 8) payload bytes, the payload length used at emission; so
\* once all packets are coded without error size_used is the sum of the lengths
\* emitted, and when the last segment is out it equals the number of bytes emitted
C30_AccountedBytesAreEmittedBytes ==
    /\ pc \in {"packets", "emit"} =>
          px.size_used = SumOfSegmentSizes(rearr)
    /\ pc = "emit" =>
          /\ px.size_used = px.rearrange_offset + SumOfSegmentSizes(Pending)
          /\ px.rearrange_offset = SumSeq([i \in 1..Len(outfile.segs) |->
                                              SegmentLen(outfile.segs[i])])
          /\ Pending = {} => px.size_used = px.rearrange_offset

C30_Witness ==
    /\ pc = "emit" /\ Pending = {}
    /\ Cardinality(rearr) > 2
    /\ px.rearrange_offset = px.size_used
    /\ \E e \in rearr : e.data_length % 8 # 0
    /\ \E e \in rearr : e.data_length % 8 = 0 /\ e.data_length > 0


(***************************************************************************)
(* The subband handed to the partition coder for a packet                  *)
(* (flash_icer_compression.cpp lines 875-893) and the regions of the       *)
(* stages of the transform (flash_wavelet.cpp lines 772-776)               *)
(***************************************************************************)
MaxPyramidDim == 9
MaxPyramidStages == 3

\* the offset of the HH subband with the column offset left out
file_offset_of_row(subband_type, decomp_level, w, h) ==
    IF subband_type = ICER_SUBBAND_LL THEN 0
    ELSE IF subband_type = ICER_SUBBAND_HL
    THEN icer_get_dim_n_low_stages(w, decomp_level) * SizeofUint16
    ELSE icer_get_dim_n_low_stages(h, decomp_level) * w * SizeofUint16

\* lines 876-893: the file offset of the subband of a packet
file_offset(subband_type, decomp_level, w, h) ==
    IF subband_type = ICER_SUBBAND_LL THEN 0
    ELSE IF subband_type = ICER_SUBBAND_HL
    THEN icer_get_dim_n_low_stages(w, decomp_level) * SizeofUint16
    ELSE IF subband_type = ICER_SUBBAND_LH
    THEN icer_get_dim_n_low_stages(h, decomp_level) * w * SizeofUint16
    ELSE (icer_get_dim_n_low_stages(h, decomp_level) * w
            + icer_get_dim_n_low_stages(w, decomp_level)) * SizeofUint16

\* flash_wavelet.cpp lines 469-476 and 772-776: the side of the region that
\* stage k + 1 transforms, current_w or current_h after k stages
RECURSIVE StageRegion(_, _)
StageRegion(n, k) == IF k = 0 THEN n ELSE NextDim(StageRegion(n, k - 1))

\* lines 862-893: the packet loop reaches a packet of a subband and computes the
\* offset of the subband in the plane file
U_SubbandOffset ==
    /\ un.pc = "pyramid"
    /\ \E subband_type \in ICER_SUBBAND_LL..ICER_SUBBAND_HH, decomp_level \in 1..un.stages :
         /\ subband_type = ICER_SUBBAND_LL => decomp_level = un.stages
         /\ un' = [un EXCEPT !.pc = "offset",
                             !.subband_type = subband_type,
                             !.decomp_level = decomp_level,
                             !.file_offset = file_offset(subband_type, decomp_level,
                                                         un.width, un.height)]
    /\ UNCHANGED <<pipelineVars, ov, cv, sd>>

InitPyramid ==
    /\ OthersAtRest
    /\ \E w \in 1..MaxPyramidDim, h \in 1..MaxPyramidDim, s \in 1..MaxPyramidStages :
         un = [pc |-> "pyramid", width |-> w, height |-> h, stages |-> s,
               subband_type |-> 0, decomp_level |-> 0, file_offset |-> 0]

NextPyramid == U_SubbandOffset

SpecPyramid == InitPyramid /\ [][NextPyramid]_vars

\* 2 to the power k
TwoTo(k) == IF k = 0 THEN 1 ELSE IF k = 1 THEN 2 ELSE IF k = 2 THEN 4
            ELSE IF k = 3 THEN 8 ELSE 16

low_dim(n, k) == (n + TwoTo(k) - 1) \div TwoTo(k)

\* high_dim as the layout gives it: floor(n / 2^(k-1)) - ceil(n / 2^k)
high_dim(n, k) == (n \div TwoTo(k - 1)) - low_dim(n, k)

\* high_dim with the region of the stage rounded up: ceil(n / 2^(k-1)) - ceil(n / 2^k)
high_dim_of_region(n, k) == low_dim(n, k - 1) - low_dim(n, k)

\* the rectangle of a subband in the layout, with High(n, k) for high_dim
LayoutRect(subband_type, k, w, h, High(_, _)) ==
    [x |-> IF subband_type \in {ICER_SUBBAND_HL, ICER_SUBBAND_HH} THEN low_dim(w, k) ELSE 0,
     y |-> IF subband_type \in {ICER_SUBBAND_LH, ICER_SUBBAND_HH} THEN low_dim(h, k) ELSE 0,
     w |-> IF subband_type \in {ICER_SUBBAND_HL, ICER_SUBBAND_HH} THEN High(w, k)
           ELSE low_dim(w, k),
     h |-> IF subband_type \in {ICER_SUBBAND_LH, ICER_SUBBAND_HH} THEN High(h, k)
           ELSE low_dim(h, k)]

\* the subbands of a transform of s stages
Subbands(s) ==
    {<<ICER_SUBBAND_LL, s>>}
        \cup ((ICER_SUBBAND_HL..ICER_SUBBAND_HH) \X (1..s))

\* the rectangles are pairwise disjoint and cover the w x h plane
LayoutTiles(w, h, s, High(_, _)) ==
    /\ \A a \in Subbands(s), b \in Subbands(s) :
         a # b => CellsOf(LayoutRect(a[1], a[2], w, h, High))
                     \cap CellsOf(LayoutRect(b[1], b[2], w, h, High)) = {}
    /\ UNION {CellsOf(LayoutRect(a[1], a[2], w, h, High)) : a \in Subbands(s)}
           = (0..(w - 1)) \X (0..(h - 1))

\* the offset of the packet reached is that of the origin of its subband
OffsetIsOrigin ==
    un.pc = "offset" =>
        LET r == LayoutRect(un.subband_type, un.decomp_level, un.width, un.height, high_dim)
        IN un.file_offset = (r.y * un.width + r.x) * 2

\* the split of the layout is the split of the regions of the stages
SplitOfStages(High(_, _)) ==
    \A k \in 1..un.stages :
        /\ low_dim(un.width, k) = StageRegion(un.width, k)
        /\ low_dim(un.height, k) = StageRegion(un.height, k)
        /\ High(un.width, k) = StageRegion(un.width, k - 1) - StageRegion(un.width, k)
        /\ High(un.height, k) = StageRegion(un.height, k - 1) - StageRegion(un.height, k)

\* C31 as stated: with high_dim(n, k) = floor(n / 2^(k-1)) - ceil(n / 2^k), the
\* subband rectangles LL(S), HL(k), LH(k), HH(k) are pairwise disjoint and cover
\* the W x H plane, and the offset handed to the partition coder for each packet
\* is (origin_y * W + origin_x) * 2
C31_LayoutTilesPlane ==
    un.pc \in {"pyramid", "offset"} =>
        /\ LayoutTiles(un.width, un.height, un.stages, high_dim)
        /\ OffsetIsOrigin

\* C31 amended: with high_dim(n, k) = ceil(n / 2^(k-1)) - ceil(n / 2^k), the
\* width of the region of stage k less its low half, the subband rectangles are
\* pairwise disjoint and cover the W x H plane, and the offset handed to the
\* partition coder for each packet is (origin_y * W + origin_x) * 2
C31_LayoutOfRegionsTilesPlane ==
    un.pc \in {"pyramid", "offset"} =>
        /\ LayoutTiles(un.width, un.height, un.stages, high_dim_of_region)
        /\ SplitOfStages(high_dim_of_region)
        /\ OffsetIsOrigin

C31_Witness ==
    /\ un.pc = "offset"
    /\ un.width = 3 /\ un.height = 5 /\ un.stages = 2
    /\ un.subband_type = ICER_SUBBAND_HH /\ un.decomp_level = 2
    /\ un.file_offset = (2 * 3 + 1) * 2


(***************************************************************************)
(* The column batches of one stage with the buffer budget of the engine    *)
(* (flash_wavelet.cpp lines 371-452)                                       *)
(***************************************************************************)
WaveletBufferBytes == 153600
WaveletColumnCap == 200

BatchWidths == {1, 2, 3, 150, 199, 200, 201, 401}
BatchHeights == {1, 383, 384, 385, 76800, 76801}

\* every batch taken as a full one
cols_in_batch_unclipped(col_start, batch_size, current_w) == batch_size

\* line 452
cols_in_batch(col_start, batch_size, current_w) ==
    IF col_start + batch_size > current_w THEN current_w - col_start ELSE batch_size

\* lines 388-425: the batch size; the reduction of lines 417-422 applies when
\* batch_size * col_size does not fit a size_t
B_Size ==
    /\ un.pc = "size"
    /\ LET col_size == un.current_h * SizeofUint16
           m == max_cols_per_batch(un.current_w, un.current_h, WaveletBufferBytes,
                                   WaveletColumnCap)
           r0 == SIZE_MAX \div col_size
           r1 == IF r0 < 1 THEN 1 ELSE r0
           reduced == IF r1 > un.current_w THEN un.current_w ELSE r1
       IN un' = [un EXCEPT !.pc = "batches",
                           !.batch_size = IF m > SIZE_MAX \div col_size THEN reduced ELSE m]
    /\ UNCHANGED <<pipelineVars, ov, cv, sd>>

\* lines 451-452 and 469-673: one iteration of the batch loop; the columns
\* col_start .. col_start + cols_in_batch - 1 are read, transformed and written
B_Batch ==
    /\ un.pc = "batches"
    /\ IF un.col_start < un.current_w
       THEN LET n == cols_in_batch(un.col_start, un.batch_size, un.current_w)
            IN un' = [un EXCEPT !.columns = @ \o [j \in 1..n |-> un.col_start + j - 1],
                                !.col_start = @ + un.batch_size]
       ELSE un' = [un EXCEPT !.pc = "done"]
    /\ UNCHANGED <<pipelineVars, ov, cv, sd>>

InitBatch ==
    /\ OthersAtRest
    /\ \E w \in BatchWidths, h \in BatchHeights :
         un = [pc |-> "size", current_w |-> w, current_h |-> h, batch_size |-> 0,
               col_start |-> 0, columns |-> <<>>]

NextBatch == B_Size \/ B_Batch

SpecBatch == InitBatch /\ [][NextBatch]_vars

\* B = min(W_k, 200, max(1, floor(153600 / (H_k * 2))))
ClaimedBatchSize(w_k, h_k) ==
    LET fit == 153600 \div (h_k * 2)
        at_least_one == IF fit > 1 THEN fit ELSE 1
        IN Min(w_k, Min(200, at_least_one))

\* C32: for a stage with a region of W_k x H_k, the batch size is
\* B = min(W_k, 200, max(1, floor(153600 / (H_k * 2)))), so 1 <= B <= W_k, and the
\* batches partition the columns 0..W_k - 1: the batches cover the columns in
\* ascending order without a gap, and when the loop ends every column has been
\* read, transformed and written exactly once
C32_BatchesPartitionColumns ==
    /\ un.pc \in {"batches", "done"} =>
         /\ un.batch_size = ClaimedBatchSize(un.current_w, un.current_h)
         /\ un.batch_size >= 1 /\ un.batch_size <= un.current_w
         /\ \A i \in 1..Len(un.columns) : un.columns[i] = i - 1
         /\ Len(un.columns) <= un.current_w
    /\ un.pc = "done" => Len(un.columns) = un.current_w

C32_Witness ==
    /\ un.pc = "done"
    /\ un.current_w = 401 /\ un.current_h = 385
    /\ un.batch_size = 199
    /\ Len(un.columns) = 401
    /\ un.col_start = 597


\* the in-memory reference: the kernel on every row of the cw x ch region at
\* (0, 0) of a plane with row stride w, in place
ReferenceRows(d, w, cw, ch) ==
    [i \in 1..Len(d) |->
        LET row == (i - 1) \div w
            col == (i - 1) % w
        IN IF row < ch /\ col < cw
           THEN icer_wavelet_transform_1d_uint16(
                    [c \in 1..cw |-> d[row * w + c]])[col + 1]
           ELSE d[i]]

\* the kernel on every column of the region, in place
ReferenceColumns(d, w, cw, ch) ==
    [i \in 1..Len(d) |->
        LET row == (i - 1) \div w
            col == (i - 1) % w
        IN IF row < ch /\ col < cw
           THEN icer_wavelet_transform_1d_uint16(
                    [r \in 1..ch |-> d[(r - 1) * w + col + 1]])[row + 1]
           ELSE d[i]]

\* stages k..s of the reference; stage k works on the region of
\* ceil(w / 2^(k-1)) x ceil(h / 2^(k-1))
RECURSIVE ReferenceTransform(_, _, _, _, _)
ReferenceTransform(d, w, h, k, s) ==
    IF k > s THEN d
    ELSE LET cw == low_dim(w, k - 1)
             ch == low_dim(h, k - 1)
         IN ReferenceTransform(ReferenceColumns(ReferenceRows(d, w, cw, ch), w, cw, ch),
                               w, h, k + 1, s)

\* C33: for S >= 1 the plane that the out-of-core engine produces equals the
\* plane of an in-memory reference that applies the kernel, stage by stage, to
\* every row and then to every column of the current LL region in place,
\* whatever the batch size
C33_EngineEqualsReference ==
    (wv.pc = "ret" /\ wv.ret = 0 /\ stages >= 1) =>
        /\ files[wv.output].ex
        /\ files[wv.output].data
              = ReferenceTransform(files[wv.input].data, width, height, 1, stages)

C33_Witness ==
    /\ wv.pc = "ret" /\ wv.ret = 0
    /\ width = 3 /\ height = 3 /\ stages = 2
    /\ files[wv.output].data
          = ReferenceTransform(files[wv.input].data, width, height, 1, stages)
    /\ files[wv.output].data # files[wv.input].data


\* the stages that rewrite a channel plane
Rewrites == {"ll_sub", "sign_mag"}

\* no plane has been rewritten by mean subtraction or sign-magnitude conversion
NoPlaneRewritten ==
    /\ \A i \in 1..Len(px.log) : px.log[i].stage \notin Rewrites
    /\ \A c \in Channels : px.pre_convert[c] = <<>>
    /\ channels_pre_transformed =>
         \A c \in Channels :
            /\ files[InputFile(c)].ex
            /\ files[InputFile(c)].data = InputPlane(args.pattern, c, width, height)

\* C34: a channel whose LL mean exceeds 32767 makes the call return the
\* INTEGER_OVERFLOW error, with no channel plane rewritten by mean subtraction or
\* sign-magnitude conversion at that point; a plane is rewritten only after the
\* means of all three channels have been found to fit
C34_MeanOverflowBeforeRewrite ==
    /\ (Returned /\ result.error_code = ICER_INTEGER_OVERFLOW) =>
          /\ px.ll_mean[px.chan] > 32767
          /\ NoPlaneRewritten
    /\ pc \in {"ll_mean", "ll_sub", "sign_mag"} =>
          \A c \in Channels : px.ll_mean[c] <= 32767
    /\ ~NoPlaneRewritten =>
          \A c \in Channels :
             /\ px.ll_mean[c] <= 32767
             /\ \E i \in 1..Len(px.log) : px.log[i] = Done("ll_mean", c)

C34_Witness ==
    /\ Returned /\ result.error_code = ICER_INTEGER_OVERFLOW
    /\ px.chan = ICER_CHANNEL_Y /\ px.ll_mean[px.chan] > 32767
    /\ ~channels_pre_transformed /\ stages = 2 /\ width = 3
    /\ NoPlaneRewritten


(***************************************************************************)
(* The LL mean steps of compressYuvWithIcerFlash (lines 189-404) on planes *)
(* handed over by the caller with channels_pre_transformed set             *)
(***************************************************************************)
\* sample values at and around the ends of the signed and unsigned 16-bit ranges
MeanSamples == {0, 1, 255, 32767, 32768, 65535}

\* the pipeline at line 189 with a Y plane of three samples of any of the values
InitMean ==
    /\ args = [width |-> 3, height |-> 1, stages |-> 1, segments |-> 1,
               target_size |-> 0, channels_pre_transformed |-> TRUE,
               pattern |-> "pixels", valid |-> TRUE]
    /\ \E y \in [1..3 -> MeanSamples] :
         files = [n \in StorageFiles |->
                    IF n = y_flash_file THEN [ex |-> TRUE, data |-> y]
                    ELSE IF n \in InputFiles
                    THEN [ex |-> TRUE, data |-> InputPlane("pixels", ChannelOf(n), 3, 1)]
                    ELSE NoFile]
    /\ outfile = NoOutFile
    /\ handles = {}
    /\ heap = IcerBuffers
    /\ pc = "ll_alloc"
    /\ wv = WvIdle
    /\ px = PxInit
    /\ packets = <<>>
    /\ rearr = {}
    /\ result = [compressed_size |-> 0, flash_filename |-> "", success |-> FALSE,
                 error_code |-> 0]
    /\ ov = OvIdle
    /\ cv = CvIdle
    /\ sd = SdIdle
    /\ un = UnIdle

NextMean ==
    \/ P_LLAlloc
    \/ P_LLMean
    \/ P_LLSubtract

SpecMean == InitMean /\ [][NextMean]_vars

\* a 16-bit sample read as a signed value
AsInt16(x) == IF x < 32768 THEN x ELSE x - 65536

\* the mean of the samples of s as signed 16-bit values, the division truncating
SignedMean(s) == TruncDiv(SumSeq([i \in 1..Len(s) |-> AsInt16(s[i])]), Len(s))

\* C35: after the mean subtraction of a channel that did not fail, the mean of the
\* LL(S) samples written back to the plane, taken in signed 16-bit arithmetic
\* with integer division, is zero
C35_WrittenMeanIsZero ==
    (pc = "sign_mag" /\ px.log # <<>>
        /\ px.log[Len(px.log)] = Done("ll_sub", px.chan)) =>
        SignedMean(LLRegion(files[channel_file(px.chan)].data, px.ll_w, px.ll_h)) = 0

(***************************************************************************)
(* compressYuvWithIcer (icer_compression.cpp), the RAM entry point, and    *)
(* its sharing of the three global ICER work buffers with                  *)
(* compressYuvWithIcerFlash.  un holds the globals, the function's static  *)
(* flags and a record of the last call.                                    *)
(***************************************************************************)

MaxCalls == 3
RamMargin == 1000
CallTargetSizes == {0, 100, 512, 513, 2000}
CallDims == {1, 2}

\* icer_compression.cpp lines 484-522: every buffer released and its pointer cleared
freeIcerBuffers(b) ==
    [icer_packets_16 |-> FALSE, icer_rearrange_segments_16 |-> FALSE,
     icer_encode_circ_buf |-> FALSE]

\* icer_compression.cpp lines 345-482: each buffer that is NULL is allocated in
\* turn; o names the allocation that fails.  A failure of the packet array
\* returns at once, a failure of the segment table releases the packet array,
\* a failure of the circular buffer releases everything.
allocateIcerBuffers(b, o) ==
    IF ~b.icer_packets_16 /\ o = "alloc_packets" THEN [b |-> b, r |-> -1]
    ELSE IF ~b.icer_rearrange_segments_16 /\ o = "alloc_rearrange"
         THEN [b |-> [b EXCEPT !.icer_packets_16 = FALSE], r |-> -2]
    ELSE IF ~b.icer_encode_circ_buf /\ o = "alloc_circ_buf"
         THEN [b |-> freeIcerBuffers(b), r |-> -3]
    ELSE [b |-> [icer_packets_16 |-> TRUE, icer_rearrange_segments_16 |-> TRUE,
                 icer_encode_circ_buf |-> TRUE], r |-> 0]

\* lines 176-187: the datastream buffer of the storage path holds the quota
\* and a margin, that of the RAM path twice the quota and a margin
datastream_size(use_flash_rearrange, byte_quota) ==
    IF use_flash_rearrange THEN byte_quota + DatastreamMargin
    ELSE byte_quota * 2 + RamMargin

\* icer_init_output_struct as the call site states its requirement (lines
\* 173-175, 235): the quota with the storage callback set, twice the quota without
icer_init_output_struct_ram(flash_write, buf_len, byte_quota) ==
    IF (IF flash_write THEN byte_quota ELSE byte_quota * 2) > buf_len
    THEN ICER_OUTPUT_BUF_TOO_SMALL ELSE ICER_RESULT_OK

NoCall == [fn |-> "none", error_code |-> 0, encoder |-> FALSE, at_encoder |-> {},
           byte_quota |-> 0, buffer_size |-> 0, fell_back |-> FALSE]

Allocated(b) == {n \in IcerBuffers : b[n]}

\* the state after a call: globals, static flags, the record of the call
CallReturned(b, flag, inited, rec) ==
    [un EXCEPT !.buffers = b, !.icer_buffers_allocated = flag,
               !.icer_initialized = inited, !.calls = un.calls + 1, !.last = rec]

\* icer_compression.cpp lines 103-329
R_compressYuvWithIcer ==
    /\ un.pc = "calls"
    /\ un.calls < MaxCalls
    /\ \E null_channel \in BOOLEAN, w \in CallDims, h \in CallDims,
          quota_arg \in CallTargetSizes, sd_card \in BOOLEAN,
          o \in {"ok", "alloc_packets", "alloc_rearrange", "alloc_circ_buf", "init",
                 "low_heap", "malloc", "open"},
          icer_result \in {ICER_RESULT_OK, ICER_BYTE_QUOTA_EXCEEDED},
          after \in {"ok", "mismatch", "missing", "copy", "empty"} :
         LET rec0 == [NoCall EXCEPT !.fn = "compressYuvWithIcer"]
             a == IF un.icer_buffers_allocated THEN [b |-> un.buffers, r |-> 0]
                  ELSE allocateIcerBuffers(un.buffers, o)
             init_fails == ~un.icer_initialized /\ o = "init"
             pixel_count == w * h
             byte_quota == IF quota_arg = 0 THEN pixel_count * 6 ELSE quota_arg
             buffer_size == datastream_size(sd_card, byte_quota)
             use_flash_rearrange == sd_card /\ o # "open"
             init_result == icer_init_output_struct_ram(use_flash_rearrange,
                                                        buffer_size, byte_quota)
             rec1 == [rec0 EXCEPT !.byte_quota = byte_quota, !.buffer_size = buffer_size,
                                  !.fell_back = sd_card /\ ~use_flash_rearrange]
             data_in_flash == use_flash_rearrange
             final == IF icer_result # ICER_RESULT_OK THEN icer_result
                      ELSE IF after = "empty" THEN -110
                      ELSE IF data_in_flash /\ after = "missing" THEN -114
                      ELSE IF data_in_flash /\ after = "mismatch" THEN -113
                      ELSE IF ~data_in_flash /\ after = "copy" THEN -109
                      ELSE 0
         IN  /\ un' =
                  IF null_channel
                  THEN CallReturned(un.buffers, un.icer_buffers_allocated, un.icer_initialized,
                                [rec0 EXCEPT !.error_code = -100])
                  ELSE IF a.r # 0
                  THEN CallReturned(a.b, un.icer_buffers_allocated, un.icer_initialized,
                                [rec0 EXCEPT !.error_code = -120 - a.r])
                  ELSE IF init_fails
                  THEN CallReturned(a.b, TRUE, FALSE, [rec0 EXCEPT !.error_code = -1])
                  ELSE IF w > SIZE_MAX \div h
                  THEN CallReturned(a.b, TRUE, TRUE, [rec0 EXCEPT !.error_code = -106])
                  ELSE IF quota_arg = 0 /\ pixel_count > SIZE_MAX \div 6
                  THEN CallReturned(a.b, TRUE, TRUE, [rec0 EXCEPT !.error_code = -102])
                  ELSE IF byte_quota > SIZE_MAX \div 2
                  THEN CallReturned(a.b, TRUE, TRUE, [rec0 EXCEPT !.error_code = -103])
                  ELSE IF buffer_size < byte_quota
                  THEN CallReturned(a.b, TRUE, TRUE, [rec0 EXCEPT !.error_code = -104])
                  ELSE IF o = "low_heap"
                  THEN CallReturned(a.b, TRUE, TRUE, [rec1 EXCEPT !.fell_back = FALSE,
                                                              !.error_code = -107])
                  ELSE IF o = "malloc"
                  THEN CallReturned(a.b, TRUE, TRUE, [rec1 EXCEPT !.fell_back = FALSE,
                                                              !.error_code = -105])
                  ELSE IF init_result # ICER_RESULT_OK
                  THEN CallReturned(a.b, TRUE, TRUE, [rec1 EXCEPT !.error_code = init_result])
                  ELSE CallReturned(freeIcerBuffers(a.b), TRUE, TRUE,
                                [rec1 EXCEPT !.encoder = TRUE,
                                             !.at_encoder = Allocated(a.b),
                                             !.error_code = final])
    /\ UNCHANGED <<pipelineVars, ov, cv, sd>>

\* flash_icer_compression.cpp lines 103-126 and the release of the work buffers
\* on each of its returns: the buffers the call leaves NULL are allocated, the
\* packets are coded, the buffers are released
R_compressYuvWithIcerFlash ==
    /\ un.pc = "calls"
    /\ un.calls < MaxCalls
    /\ \E o \in {"ok", "alloc_packets", "alloc_rearrange", "alloc_circ_buf", "init", "early"},
          error_code \in {0, ICER_BYTE_QUOTA_EXCEEDED} :
         LET rec0 == [NoCall EXCEPT !.fn = "compressYuvWithIcerFlash"]
             a == allocateIcerBuffers(un.buffers, o)
         IN  un' =
               IF a.r # 0
               THEN CallReturned(a.b, un.icer_buffers_allocated, un.icer_initialized,
                             [rec0 EXCEPT !.error_code = -120 - a.r])
               ELSE IF o = "init"
               THEN CallReturned(freeIcerBuffers(a.b), un.icer_buffers_allocated,
                             un.icer_initialized, [rec0 EXCEPT !.error_code = -1])
               ELSE IF o = "early"
               THEN CallReturned(freeIcerBuffers(a.b), un.icer_buffers_allocated,
                             un.icer_initialized, [rec0 EXCEPT !.error_code = -201])
               ELSE CallReturned(freeIcerBuffers(a.b), un.icer_buffers_allocated,
                             un.icer_initialized,
                             [rec0 EXCEPT !.encoder = TRUE, !.at_encoder = Allocated(a.b),
                                          !.error_code = error_code])
    /\ UNCHANGED <<pipelineVars, ov, cv, sd>>

\* lines 67-72, 126, 136: the globals are NULL and the static flags false at start
InitCalls ==
    /\ OthersAtRest
    /\ un = [pc |-> "calls", calls |-> 0,
             buffers |-> [icer_packets_16 |-> FALSE, icer_rearrange_segments_16 |-> FALSE,
                          icer_encode_circ_buf |-> FALSE],
             icer_buffers_allocated |-> FALSE, icer_initialized |-> FALSE,
             last |-> NoCall]

NextCalls == R_compressYuvWithIcer \/ R_compressYuvWithIcerFlash

SpecCalls == InitCalls /\ [][NextCalls]_vars

\* C36: whenever a call has invoked the ICER encoder, the packet array, the
\* segment-index table and the circular buffer were all allocated at that moment
C36_BuffersAllocatedAtEncoder ==
    (un.pc = "calls" /\ un.last.encoder) => un.last.at_encoder = IcerBuffers

\* C37: when compressYuvWithIcer was given a storage card and a file name and
\* the output file could not be opened, the datastream buffer it goes on with
\* holds at least twice the byte quota, and the call does not fail on buffer size
C37_FallbackBufferFitsRam ==
    (un.pc = "calls" /\ un.last.fn = "compressYuvWithIcer" /\ un.last.fell_back)
        => /\ un.last.buffer_size >= 2 * un.last.byte_quota
           /\ un.last.error_code # ICER_OUTPUT_BUF_TOO_SMALL

\* C38: with channels_pre_transformed = false no step of compressYuvWithIcerFlash
\* creates, removes, truncates or rewrites any of the three input channel
\* files: they exist with the same contents before and after every step, hence
\* on every return
C38_InputFilesUntouched ==
    [][(pc' # "start" /\ ~channels_pre_transformed) =>
          \A n \in InputFiles : files'[n] = files[n]]_vars

C38_Witness ==
    /\ Returned /\ result.success
    /\ ~channels_pre_transformed
    /\ stages >= 1
    /\ \A c \in Channels :
          /\ files[InputFile(c)].ex
          /\ files[InputFile(c)].data # <<>>
          /\ \E i \in 1..Len(px.log) : px.log[i] = Done("sign_mag", c)

CopyChunkBytes == 4096
LoopTotals == {0, 2, 6, 4094, 4096, 4098, 8192, 8194}
FallbackTotals == {0, 2, 6, 10}
Devices == {"full", "short", "none", "any"}
LoopPcs == {"zero_fill", "zero_fallback", "copy_existing", "copy_back"}

\* the byte counts a read or write of n bytes may return
IoReturns(dev, n) ==
    IF dev = "full" THEN {n}
    ELSE IF dev = "short" THEN {Max(n - 1, 0)}
    ELSE IF dev = "none" THEN {0}
    ELSE {0, Max(n - 1, 0), n}

\* the zero fill counting the bytes the device accepted
zero_fill_remaining_by_written(remaining, to_write, written) == remaining - written

\* flash_wavelet.cpp lines 265-267: the count goes down by the bytes requested,
\* whatever write() returned
zero_fill_remaining(remaining, to_write, written) == remaining - to_write

\* lines 264-269: one iteration of the chunked zero fill, or its exit
L_ZeroFill ==
    /\ un.pc = "zero_fill"
    /\ IF un.remaining > 0
       THEN LET to_write == Min(un.remaining, CopyChunkBytes) IN
            \E written \in IoReturns(un.dev, to_write) :
               un' = [un EXCEPT !.remaining = zero_fill_remaining(@, to_write, written)]
       ELSE un' = [un EXCEPT !.pc = "done"]
    /\ UNCHANGED <<pipelineVars, ov, cv, sd>>

\* lines 271-275: one iteration of the fill without a chunk buffer, or its exit
L_ZeroFallback ==
    /\ un.pc = "zero_fallback"
    /\ IF un.i < un.total_size
       THEN un' = [un EXCEPT !.i = @ + SizeofUint16]
       ELSE un' = [un EXCEPT !.pc = "done"]
    /\ UNCHANGED <<pipelineVars, ov, cv, sd>>

\* one iteration of a copy loop, or its exit: a short read or a short write
\* ends the loop with an error
CopyLoop(read_error, write_error) ==
    IF un.remaining > 0
    THEN LET to_read == Min(un.remaining, CopyChunkBytes) IN
         \E bytes_read \in IoReturns(un.dev, to_read) :
            IF bytes_read # to_read
            THEN un' = [un EXCEPT !.pc = "done", !.ret = read_error]
            ELSE \E bytes_written \in IoReturns(un.dev, bytes_read) :
                    IF bytes_written # bytes_read
                    THEN un' = [un EXCEPT !.pc = "done", !.ret = write_error]
                    ELSE un' = [un EXCEPT !.remaining = @ - bytes_read]
    ELSE un' = [un EXCEPT !.pc = "done"]

\* flash_wavelet.cpp lines 322-357
L_CopyExisting ==
    /\ un.pc = "copy_existing"
    /\ CopyLoop(-17, -18)
    /\ UNCHANGED <<pipelineVars, ov, cv, sd>>

\* flash_icer_compression.cpp lines 550-590
L_CopyBack ==
    /\ un.pc = "copy_back"
    /\ CopyLoop(-213, -214)
    /\ UNCHANGED <<pipelineVars, ov, cv, sd>>

\* a loop entered with its byte count
InitLoops ==
    /\ OthersAtRest
    /\ \E l \in LoopPcs, dev \in Devices :
         \E total_size \in (IF l = "zero_fallback" THEN FallbackTotals ELSE LoopTotals) :
            un = [pc |-> l, dev |-> dev, total_size |-> total_size,
                  remaining |-> total_size, i |-> 0, ret |-> 0]

NextLoops == L_ZeroFill \/ L_ZeroFallback \/ L_CopyExisting \/ L_CopyBack

\* The program is one thread and, by the claim's premise, every I/O primitive
\* returns: a step that can be taken is taken.
SpecLive ==
    /\ Init \/ InitLoops
    /\ [][Next \/ NextLoops]_vars
    /\ WF_vars(Next \/ NextLoops)

\* C40: whatever the storage device returns, every call of
\* compressYuvWithIcerFlash, with the calls of streamingWaveletTransform it
\* makes, eventually returns (or the conversion failed and no call is made),
\* and each chunk loop eventually exits
C40_EveryCallReturns ==
    <>(Returned \/ cv.pc = "failed" \/ un.pc = "done")

\* the zero fill ran to its end on a device that accepted no byte
C40_Witness ==
    /\ un.pc = "done"
    /\ un.dev = "none"
    /\ un.ret = 0
    /\ un.total_size > CopyChunkBytes

====
